---- MODULE Spec2Model ----
(***************************************************************************)
(* Detection visualisation engine of the oil-spill dashboard.              *)
(*                                                                         *)
(* Three revisions of the rasterizer live in the repository:               *)
(*   "poly"  utils/imageProcessing (src/unnamed/part_001), polygon masks,  *)
(*           driven by the App of src/unnamed/part_005;                    *)
(*   "box"   src/utils/imageProcessing.ts, bounding boxes, driven by       *)
(*           src/App.tsx;                                                  *)
(*   "box2"  src/unnamed/part_002, bounding boxes (restyled), same driver. *)
(*                                                                         *)
(* A canvas is modelled by its display list (the drawing commands issued   *)
(* on its 2D context, each carrying the context state in force when it was *)
(* issued); the colour of a pixel is recovered by replaying the list at    *)
(* that pixel (PixelAt).  A pixel colour is the stack of layers painted    *)
(* since the last opaque, fully covering paint (source-over compositing).  *)
(* Lengths are exact rationals kept in units of 1/PX of a pixel.           *)
(***************************************************************************)
EXTENDS Integers, Sequences, FiniteSets, TLC

VARIABLES
  variant,        \* which revision of the program runs: "poly", "box", "box2"
  selectedImage,  \* App state: the chosen source image, or NoImage
  maskImage,      \* App state (box revisions): uploaded ground-truth mask, or NoImage
  analyzing,      \* App state
  result,         \* App state: DetectionResult with visuals, or NoResult
  logs,           \* App state: newest first
  activeMenu,     \* App state
  pc,             \* position of the runUnet invocation: "idle", "analyze", "gt", "pred", "ovl"
  closure,        \* selectedImage and maskImage as the running runUnet captured them
  res,            \* value analyzeOilSpill resolved to for the running runUnet
  calls,          \* per artifact kind: the rasterization call (its Image, its promise)
  download,       \* the file the step just taken handed to the browser, or NoDownload
  charts,         \* chart functions on their own: the data series and each back-end's output
  assets,         \* the image downloads the step just taken started (exportAssets)
  idx             \* `let idx` of the status ticker effect

vars == <<variant, selectedImage, maskImage, analyzing, result, logs, activeMenu,
          pc, closure, res, calls, download, charts, assets, idx>>

appVars == <<selectedImage, maskImage, analyzing, result, logs, activeMenu,
             pc, closure, res>>

-----------------------------------------------------------------------------
(* Bounds of the model *)

\* longest shape list (polygons or boxes) handed to a rasterizer
MaxShapes == 2
\* longest prefix of the training history handed to a chart function
MaxHistory == 4
\* longest prefix of the radar metric list handed to a chart function
MaxMetrics == 4
\* number of export lines the log may hold when a report is exported
MaxExports == 1

-----------------------------------------------------------------------------
(* Values *)

\* an array-valued property of the analysis JSON: present or not
Arr(s)   == [defined |-> TRUE, items |-> s]
Absent   == [defined |-> FALSE, items |-> << >>]
\* res.landPolygons || []
OrEmpty(a) == IF a.defined THEN a ELSE Arr(<< >>)

\* an artifact string: a PNG data URI (the raster, as size + display list) or ""
EmptyStr == [data |-> FALSE, width |-> 0, height |-> 0, ops |-> << >>]

\* no file was handed to the browser by the step just taken
NoDownload == [set |-> FALSE]
\* no chart function has been applied yet
NoCharts == [set |-> FALSE]
\* no image download was started by the step just taken
NoAssets == << >>
\* `let interval: number | undefined`: no interval is set (idx does not exist)
NoInterval == -1

Variants == {"poly", "box", "box2"}
Kinds    == {"gt", "pred", "ovl"}

\* sub-pixel resolution: one pixel is PX length units (600 = lcm of the
\* divisors 100, 300, 120, 50, 15 met in the rasterizers, times 2 for halves)
PX == 6 * 100

Min(a, b) == IF a <= b THEN a ELSE b
Max(a, b) == IF a >= b THEN a ELSE b

P(px, py) == [x |-> px, y |-> py]
B(bx, by, bw, bh) == [x |-> bx, y |-> by, w |-> bw, h |-> bh]
Img(n, iw, ih) == [name |-> n, width |-> iw, height |-> ih]
NoImage == Img("null", 0, 0)

-----------------------------------------------------------------------------
(* Geometry normalizer: percent -> pixel, (v / 100) * dim, in 1/PX pixel *)

\* the scale clamped to the canvas
NormClamped(v, dim) == Max(0, Min(dim * PX, (v * dim * PX) \div 100))

Norm(v, dim) == (v * dim * PX) \div 100

-----------------------------------------------------------------------------
(* 2D context: state set by the assignments, display list grown by the     *)
(* drawing calls.                                                          *)

\* one canvas kept across runs: it still holds the drawing of the stored overlay
NewCanvasRetained(w, h) ==
  [width |-> w, height |-> h, fillStyle |-> "#000000", strokeStyle |-> "#000000",
   lineWidth |-> PX, shadowBlur |-> 0, shadowColor |-> "rgba(0, 0, 0, 0)",
   textAlign |-> "start",
   ops |-> IF result.set THEN result.visuals.overlay.ops ELSE << >>, thrown |-> FALSE]

\* one canvas shared by the calls in flight: it holds what the predicted-mask
\* call has drawn so far
NewCanvasShared(w, h) ==
  [width |-> w, height |-> h, fillStyle |-> "#000000", strokeStyle |-> "#000000",
   lineWidth |-> PX, shadowBlur |-> 0, shadowColor |-> "rgba(0, 0, 0, 0)",
   textAlign |-> "start",
   ops |-> calls["pred"].value.ops, thrown |-> FALSE]

\* document.createElement('canvas') with canvas.width = w, canvas.height = h,
\* and its getContext('2d'): a blank surface with the default drawing state
NewCanvas(w, h) ==
  [width |-> w, height |-> h, fillStyle |-> "#000000", strokeStyle |-> "#000000",
   lineWidth |-> PX, shadowBlur |-> 0, shadowColor |-> "rgba(0, 0, 0, 0)",
   textAlign |-> "start",
   ops |-> << >>, thrown |-> FALSE]

\* paints whose alpha is below 1
Translucent == {"rgba(46, 204, 113, 0.2)", "rgba(60, 60, 60, 0.5)",
                "rgba(255, 255, 255, 0.05)", "rgba(0, 85, 255, 0.2)",
                "rgba(0, 230, 118, 0.35)", "rgba(0, 85, 255, 0.45)",
                "rgba(255, 0, 85, 0.6)"}
IsOpaque(c) == c \notin Translucent

\* a shadow is drawn when its colour is not fully transparent and its blur is not 0
ShadowOn(c) == c.shadowBlur > 0 /\ c.shadowColor # "rgba(0, 0, 0, 0)"

\* how far a blurred shadow spreads: sigma = shadowBlur / 2, cut at 3 sigma
GlowReach(blur) == (3 * blur) \div 2

FillRect(c, rx, ry, rw, rh) ==
  [c EXCEPT !.ops = Append(@, [op |-> "fillRect", x |-> rx, y |-> ry, w |-> rw, h |-> rh,
                               paint |-> c.fillStyle,
                               blur |-> IF ShadowOn(c) THEN c.shadowBlur ELSE 0,
                               shadow |-> c.shadowColor])]

StrokeRect(c, rx, ry, rw, rh) ==
  [c EXCEPT !.ops = Append(@, [op |-> "strokeRect", x |-> rx, y |-> ry, w |-> rw, h |-> rh,
                               lw |-> c.lineWidth, paint |-> c.strokeStyle,
                               blur |-> IF ShadowOn(c) THEN c.shadowBlur ELSE 0,
                               shadow |-> c.shadowColor])]

FillPath(c, path) ==
  [c EXCEPT !.ops = Append(@, [op |-> "fillPath", pts |-> path, paint |-> c.fillStyle])]

DrawImage(c) ==
  [c EXCEPT !.ops = Append(@, [op |-> "drawImage"])]

FillText(c, t, tx, ty) ==
  [c EXCEPT !.ops = Append(@, [op |-> "fillText", text |-> t, x |-> tx, y |-> ty,
                               align |-> c.textAlign, paint |-> c.fillStyle])]

\* canvas.toDataURL: the raster of the surface, kept as size + display list
ToDataURL(c) == [data |-> TRUE, width |-> c.width, height |-> c.height, ops |-> c.ops]

Resolve(v) == [kind |-> "resolve", value |-> v]
Throw      == [kind |-> "throw"]
Finish(c)  == IF c.thrown THEN Throw ELSE Resolve(ToDataURL(c))

-----------------------------------------------------------------------------
(* Replay of a display list at one pixel.  Pixel (px, py) is the square    *)
(* [px, px+1] x [py, py+1].  Rectangles are covered exactly (none, partial *)
(* = anti-aliased edge, full); a path is sampled at the pixel centre under *)
(* the non-zero winding rule, the default of ctx.fill().                   *)

Lo(a, d) == Min(a, a + d)
Hi(a, d) == Max(a, a + d)

\* the pixel and the rectangle [x0,x1] x [y0,y1] share a positive area
Touches(px, py, x0, y0, x1, y1) ==
  /\ x0 < x1 /\ y0 < y1
  /\ (px + 1) * PX > x0 /\ px * PX < x1
  /\ (py + 1) * PX > y0 /\ py * PX < y1

\* the pixel lies within the rectangle
Within(px, py, x0, y0, x1, y1) ==
  /\ px * PX >= x0 /\ (px + 1) * PX <= x1
  /\ py * PX >= y0 /\ (py + 1) * PX <= y1

Coverage(px, py, x0, y0, x1, y1) ==
  IF Within(px, py, x0, y0, x1, y1) /\ x0 < x1 /\ y0 < y1 THEN "full"
  ELSE IF Touches(px, py, x0, y0, x1, y1) THEN "partial"
  ELSE "none"

\* fillRect: nothing when the width or the height is zero
FillCoverage(o, px, py) ==
  IF o.w = 0 \/ o.h = 0 THEN "none"
  ELSE Coverage(px, py, Lo(o.x, o.w), Lo(o.y, o.h), Hi(o.x, o.w), Hi(o.y, o.h))

\* strokeRect: nothing when both are zero, a line when one is zero, else the
\* band of width lw centred on the outline (miter joins, butt caps)
StrokeOuter(o) ==
  LET hw == o.lw \div 2
  IN  [x0 |-> Lo(o.x, o.w) - (IF o.h = 0 THEN 0 ELSE hw),
       x1 |-> Hi(o.x, o.w) + (IF o.h = 0 THEN 0 ELSE hw),
       y0 |-> Lo(o.y, o.h) - (IF o.w = 0 THEN 0 ELSE hw),
       y1 |-> Hi(o.y, o.h) + (IF o.w = 0 THEN 0 ELSE hw)]

StrokeInner(o) ==
  LET hw == o.lw \div 2
  IN  [x0 |-> Lo(o.x, o.w) + hw, x1 |-> Hi(o.x, o.w) - hw,
       y0 |-> Lo(o.y, o.h) + hw, y1 |-> Hi(o.y, o.h) - hw]

StrokeCoverage(o, px, py) ==
  LET out == StrokeOuter(o)
      inn == StrokeInner(o)
  IN  IF o.w = 0 /\ o.h = 0 THEN "none"
      ELSE IF ~Touches(px, py, out.x0, out.y0, out.x1, out.y1) THEN "none"
      ELSE IF Within(px, py, inn.x0, inn.y0, inn.x1, inn.y1) THEN "none"
      ELSE IF /\ Within(px, py, out.x0, out.y0, out.x1, out.y1)
              /\ ~Touches(px, py, inn.x0, inn.y0, inn.x1, inn.y1) THEN "full"
      ELSE "partial"

\* the blurred shadow of a filled rectangle / of a stroked outline
FillGlow(o, px, py) ==
  LET r == GlowReach(o.blur)
  IN  /\ o.blur > 0 /\ o.w # 0 /\ o.h # 0
      /\ Touches(px, py, Lo(o.x, o.w) - r, Lo(o.y, o.h) - r,
                         Hi(o.x, o.w) + r, Hi(o.y, o.h) + r)

StrokeGlow(o, px, py) ==
  LET r   == GlowReach(o.blur)
      out == StrokeOuter(o)
      inn == StrokeInner(o)
  IN  /\ o.blur > 0 /\ ~(o.w = 0 /\ o.h = 0)
      /\ Touches(px, py, out.x0 - r, out.y0 - r, out.x1 + r, out.y1 + r)
      /\ ~Within(px, py, inn.x0 + r, inn.y0 + r, inn.x1 - r, inn.y1 - r)

\* winding number of the closed path pts around point (cx, cy)
IsLeft(a, b, cx, cy) == (b.x - a.x) * (cy - a.y) - (cx - a.x) * (b.y - a.y)

EdgeWinding(a, b, cx, cy) ==
  IF a.y <= cy
    THEN (IF b.y > cy /\ IsLeft(a, b, cx, cy) > 0 THEN 1 ELSE 0)
    ELSE (IF b.y <= cy /\ IsLeft(a, b, cx, cy) < 0 THEN -1 ELSE 0)

RECURSIVE Winding(_, _, _, _)
Winding(pts, i, cx, cy) ==
  IF i > Len(pts) THEN 0
  ELSE EdgeWinding(pts[i], pts[(i % Len(pts)) + 1], cx, cy) + Winding(pts, i + 1, cx, cy)

PathCovers(pts, px, py) ==
  Len(pts) > 0 /\ Winding(pts, 1, px * PX + PX \div 2, py * PX + PX \div 2) # 0

\* source-over compositing of one layer on the stack of a pixel
Paint(stack, colour, cov) ==
  IF cov = "none" THEN stack
  ELSE IF cov = "full" /\ IsOpaque(colour) THEN << <<"paint", colour>> >>
  ELSE IF cov = "full" THEN Append(stack, <<"paint", colour>>)
  ELSE Append(stack, <<"edge", colour>>)

Glow(stack, colour, on) == IF on THEN Append(stack, <<"glow", colour>>) ELSE stack

ApplyOp(o, stack, px, py) ==
  CASE o.op = "drawImage"  -> << <<"image", "source">> >>
    [] o.op = "fillRect"   -> Paint(Glow(stack, o.shadow, FillGlow(o, px, py)),
                                    o.paint, FillCoverage(o, px, py))
    [] o.op = "strokeRect" -> Paint(Glow(stack, o.shadow, StrokeGlow(o, px, py)),
                                    o.paint, StrokeCoverage(o, px, py))
    [] o.op = "fillPath"   -> Paint(stack, o.paint,
                                    IF PathCovers(o.pts, px, py) THEN "full" ELSE "none")
    [] OTHER               -> stack     \* fillText: glyphs are not rasterized here

RECURSIVE Replay(_, _, _, _, _)
Replay(ops, i, stack, px, py) ==
  IF i > Len(ops) THEN stack
  ELSE Replay(ops, i + 1, ApplyOp(ops[i], stack, px, py), px, py)

\* the colour (layer stack) of pixel (px, py) of an artifact
PixelAt(art, px, py) == Replay(art.ops, 1, << >>, px, py)

Pixels(art) == (0 .. art.width - 1) \X (0 .. art.height - 1)

\* the text drawn on an artifact
RECURSIVE Texts(_, _)
Texts(ops, i) ==
  IF i > Len(ops) THEN << >>
  ELSE IF ops[i].op = "fillText" THEN <<ops[i]>> \o Texts(ops, i + 1)
  ELSE Texts(ops, i + 1)

\* two artifacts show the same picture
SamePicture(a, b) ==
  /\ a.width = b.width /\ a.height = b.height
  /\ \A p \in Pixels(a) : PixelAt(a, p[1], p[2]) = PixelAt(b, p[1], p[2])
  /\ Texts(a.ops, 1) = Texts(b.ops, 1)

-----------------------------------------------------------------------------
(* Polygon rasterizer, src/unnamed/part_001                                *)

\* the path of one polygon: moveTo the first point, lineTo the others, closePath
PolygonPath(polygon, width, height) ==
  [i \in 1 .. Len(polygon) |->
     [x |-> Norm(polygon[i].x, width), y |-> Norm(polygon[i].y, height)]]

\* a short polygon ends the whole loop instead of being passed over
RECURSIVE PolygonsForEachAbort(_, _, _, _, _)
PolygonsForEachAbort(ctx, list, width, height, fillColor) ==
  IF list = << >> THEN ctx
  ELSE IF Len(Head(list)) < 3 THEN ctx
  ELSE PolygonsForEachAbort(
         FillPath([ctx EXCEPT !.fillStyle = fillColor],
                  PolygonPath(Head(list), width, height)),
         Tail(list), width, height, fillColor)

\* polygons.forEach(...): a polygon of fewer than 3 points is passed over
RECURSIVE PolygonsForEach(_, _, _, _, _)
PolygonsForEach(ctx, list, width, height, fillColor) ==
  IF list = << >> THEN ctx
  ELSE IF Len(Head(list)) < 3
    THEN PolygonsForEach(ctx, Tail(list), width, height, fillColor)
  ELSE PolygonsForEach(
         FillPath([ctx EXCEPT !.fillStyle = fillColor],
                  PolygonPath(Head(list), width, height)),
         Tail(list), width, height, fillColor)

drawOrganicPolygons(ctx, polygons, width, height, fillColor) ==
  IF ctx.thrown THEN ctx
  ELSE IF ~polygons.defined THEN [ctx EXCEPT !.thrown = TRUE]   \* undefined.forEach
  ELSE PolygonsForEach(ctx, polygons.items, width, height, fillColor)

\* the two layers drawn in the opposite order
generateGTReferenceMaskLandLast(img, spillPolygons, landPolygons, ctxOk) ==
  IF ~ctxOk THEN Resolve(EmptyStr)
  ELSE LET c0 == NewCanvas(img.width, img.height)
           c1 == FillRect([c0 EXCEPT !.fillStyle = "#FFFFFF"], 0, 0,
                          c0.width * PX, c0.height * PX)
           c2 == drawOrganicPolygons(c1, spillPolygons, c1.width, c1.height, "#000000")
           c3 == drawOrganicPolygons(c2, landPolygons, c2.width, c2.height, "#2ECC71")
       IN  Finish(c3)

\* body of img.onload of generateGTReferenceMask
generateGTReferenceMask(img, spillPolygons, landPolygons, ctxOk) ==
  IF ~ctxOk THEN Resolve(EmptyStr)
  ELSE LET c0 == NewCanvas(img.width, img.height)
           c1 == FillRect([c0 EXCEPT !.fillStyle = "#FFFFFF"], 0, 0,
                          c0.width * PX, c0.height * PX)
           c2 == drawOrganicPolygons(c1, landPolygons, c1.width, c1.height, "#2ECC71")
           c3 == drawOrganicPolygons(c2, spillPolygons, c2.width, c2.height, "#000000")
       IN  Finish(c3)

\* the handler without `if (!ctx) return resolve("")`: the first assignment
\* to a property of the null context throws
generatePredictedMaskUnguarded(img, polygons, ctxOk) ==
  IF ~ctxOk THEN Throw
  ELSE LET c0 == NewCanvas(img.width, img.height)
           c1 == FillRect([c0 EXCEPT !.fillStyle = "#FFFFFF"], 0, 0,
                          c0.width * PX, c0.height * PX)
           c2 == drawOrganicPolygons(c1, polygons, c1.width, c1.height, "#000000")
       IN  Finish(c2)

\* body of img.onload of generatePredictedMask (polygons)
generatePredictedMask(img, polygons, ctxOk) ==
  IF ~ctxOk THEN Resolve(EmptyStr)
  ELSE LET c0 == NewCanvas(img.width, img.height)
           c1 == FillRect([c0 EXCEPT !.fillStyle = "#FFFFFF"], 0, 0,
                          c0.width * PX, c0.height * PX)
           c2 == drawOrganicPolygons(c1, polygons, c1.width, c1.height, "#000000")
       IN  Finish(c2)

\* the tint laid over the highlighted polygons instead of under them
generateFinalOverlayTintLast(img, polygons, ctxOk) ==
  IF ~ctxOk THEN Resolve(EmptyStr)
  ELSE LET c0 == NewCanvas(img.width, img.height)
           c1 == DrawImage(c0)
           c2 == drawOrganicPolygons(c1, polygons, c1.width, c1.height,
                                     "rgba(60, 60, 60, 0.5)")
           c3 == FillRect([c2 EXCEPT !.fillStyle = "rgba(46, 204, 113, 0.2)"], 0, 0,
                          c2.width * PX, c2.height * PX)
       IN  Finish(c3)

\* body of img.onload of generateFinalOverlay
generateFinalOverlay(img, polygons, ctxOk) ==
  IF ~ctxOk THEN Resolve(EmptyStr)
  ELSE LET c0 == NewCanvas(img.width, img.height)
           c1 == DrawImage(c0)
           c2 == FillRect([c1 EXCEPT !.fillStyle = "rgba(46, 204, 113, 0.2)"], 0, 0,
                          c1.width * PX, c1.height * PX)
           c3 == drawOrganicPolygons(c2, polygons, c2.width, c2.height,
                                     "rgba(60, 60, 60, 0.5)")
       IN  Finish(c3)

-----------------------------------------------------------------------------
(* Bounding-box rasterizer, src/utils/imageProcessing.ts ("box")           *)

\* Math.max(k, canvas.width / d), a length in pixels
MaxPx(k, width, d) == Max(k * PX, (width * PX) \div d)

\* the "no detection" label of an empty predicted mask
NoDetectionLabel(ctx, colour, text) ==
  FillText([ctx EXCEPT !.fillStyle = colour, !.textAlign = "center"], text,
           (ctx.width * PX) \div 2, (ctx.height * PX) \div 2)

\* width and height of the box exchanged in the fill
PredictedBox_boxSwapped(ctx, c) ==
  LET x  == Norm(c.x, ctx.width)
      y  == Norm(c.y, ctx.height)
      w  == Norm(c.w, ctx.width)
      h  == Norm(c.h, ctx.height)
      c1 == FillRect([ctx EXCEPT !.fillStyle = "gradient(#ff0055, #00e676)",
                                 !.shadowBlur = 25 * PX,
                                 !.shadowColor = "rgba(255, 0, 85, 0.6)"], x, y, h, w)
      c2 == StrokeRect([c1 EXCEPT !.shadowBlur = 0, !.strokeStyle = "#ffffff",
                                  !.lineWidth = MaxPx(1, ctx.width, 300)], x, y, w, h)
  IN  c2

\* one iteration of coords.forEach in generatePredictedMask
PredictedBox_box(ctx, c) ==
  LET x  == Norm(c.x, ctx.width)
      y  == Norm(c.y, ctx.height)
      w  == Norm(c.w, ctx.width)
      h  == Norm(c.h, ctx.height)
      c1 == FillRect([ctx EXCEPT !.fillStyle = "gradient(#ff0055, #00e676)",
                                 !.shadowBlur = 25 * PX,
                                 !.shadowColor = "rgba(255, 0, 85, 0.6)"], x, y, w, h)
      c2 == StrokeRect([c1 EXCEPT !.shadowBlur = 0, !.strokeStyle = "#ffffff",
                                  !.lineWidth = MaxPx(1, ctx.width, 300)], x, y, w, h)
  IN  c2

RECURSIVE PredictedBoxes_boxLoop(_, _)
PredictedBoxes_boxLoop(ctx, list) ==
  IF list = << >> THEN ctx
  ELSE PredictedBoxes_boxLoop(PredictedBox_box(ctx, Head(list)), Tail(list))

\* coords.forEach(...)
PredictedBoxes_box(ctx, coords) ==
  IF ~coords.defined THEN [ctx EXCEPT !.thrown = TRUE]      \* undefined.forEach
  ELSE PredictedBoxes_boxLoop(ctx, coords.items)

\* body of img.onload of generatePredictedMask
generatePredictedMask_box(img, coords, ctxOk) ==
  IF ~ctxOk THEN Resolve(EmptyStr)
  ELSE LET c0 == NewCanvas(img.width, img.height)
           c1 == FillRect([c0 EXCEPT !.fillStyle = "#0f172a"], 0, 0,
                          c0.width * PX, c0.height * PX)
           c2 == IF ~coords.defined \/ coords.items = << >>
                   THEN NoDetectionLabel(c1, "rgba(255, 255, 255, 0.05)",
                                         "NO ANOMALIES DETECTED")
                   ELSE c1
       IN  Finish(PredictedBoxes_box(c2, coords))

\* one iteration of coords.forEach in generateOverlay
OverlayBox_box(ctx, c) ==
  LET x  == Norm(c.x, ctx.width)
      y  == Norm(c.y, ctx.height)
      w  == Norm(c.w, ctx.width)
      h  == Norm(c.h, ctx.height)
      c1 == StrokeRect([ctx EXCEPT !.strokeStyle = "#ff0055",
                                   !.lineWidth = MaxPx(4, ctx.width, 120),
                                   !.shadowBlur = 20 * PX,
                                   !.shadowColor = "#ff0055"], x, y, w, h)
      c2 == FillRect([c1 EXCEPT !.fillStyle = "rgba(0, 230, 118, 0.35)"], x, y, w, h)
      c3 == StrokeRect([c2 EXCEPT !.shadowBlur = 0, !.strokeStyle = "#00e676",
                                  !.lineWidth = 1 * PX],
                       x + 4 * PX, y + 4 * PX, w - 8 * PX, h - 8 * PX)
  IN  c3

RECURSIVE OverlayBoxes_boxLoop(_, _)
OverlayBoxes_boxLoop(ctx, list) ==
  IF list = << >> THEN ctx
  ELSE OverlayBoxes_boxLoop(OverlayBox_box(ctx, Head(list)), Tail(list))

\* coords.forEach(...)
OverlayBoxes_box(ctx, coords) ==
  IF ~coords.defined THEN [ctx EXCEPT !.thrown = TRUE]      \* undefined.forEach
  ELSE OverlayBoxes_boxLoop(ctx, coords.items)

\* body of img.onload of generateOverlay
generateOverlay_box(img, coords, ctxOk) ==
  IF ~ctxOk THEN Resolve(EmptyStr)
  ELSE Finish(OverlayBoxes_box(DrawImage(NewCanvas(img.width, img.height)), coords))

-----------------------------------------------------------------------------
(* Bounding-box rasterizer, src/unnamed/part_002 ("box2")                  *)

PredictedBox_box2(ctx, c) ==
  LET x  == Norm(c.x, ctx.width)
      y  == Norm(c.y, ctx.height)
      w  == Norm(c.w, ctx.width)
      h  == Norm(c.h, ctx.height)
      c1 == FillRect([ctx EXCEPT !.fillStyle = "gradient(#0055FF, #001133)",
                                 !.shadowBlur = (ctx.width * PX) \div 15,
                                 !.shadowColor = "#0055FF"], x, y, w, h)
      c2 == StrokeRect([c1 EXCEPT !.shadowBlur = 0, !.strokeStyle = "#0055FF",
                                  !.lineWidth = MaxPx(6, ctx.width, 100)], x, y, w, h)
      c3 == [c2 EXCEPT !.strokeStyle = "#FFFFFF", !.lineWidth = MaxPx(2, ctx.width, 300)]
      c4 == StrokeRect(c3, x + c3.lineWidth, y + c3.lineWidth,
                       w - c3.lineWidth * 2, h - c3.lineWidth * 2)
  IN  c4

RECURSIVE PredictedBoxes_box2Loop(_, _)
PredictedBoxes_box2Loop(ctx, list) ==
  IF list = << >> THEN ctx
  ELSE PredictedBoxes_box2Loop(PredictedBox_box2(ctx, Head(list)), Tail(list))

\* coords.forEach(...)
PredictedBoxes_box2(ctx, coords) ==
  IF ~coords.defined THEN [ctx EXCEPT !.thrown = TRUE]      \* undefined.forEach
  ELSE PredictedBoxes_box2Loop(ctx, coords.items)

generatePredictedMask_box2(img, coords, ctxOk) ==
  IF ~ctxOk THEN Resolve(EmptyStr)
  ELSE LET c0 == NewCanvas(img.width, img.height)
           c1 == FillRect([c0 EXCEPT !.fillStyle = "#050B18"], 0, 0,
                          c0.width * PX, c0.height * PX)
           c2 == IF ~coords.defined \/ coords.items = << >>
                   THEN NoDetectionLabel(c1, "rgba(0, 85, 255, 0.2)", "NO_ANOMALY_DETECTED")
                   ELSE c1
       IN  Finish(PredictedBoxes_box2(c2, coords))

OverlayBox_box2(ctx, c) ==
  LET x  == Norm(c.x, ctx.width)
      y  == Norm(c.y, ctx.height)
      w  == Norm(c.w, ctx.width)
      h  == Norm(c.h, ctx.height)
      c1 == StrokeRect([ctx EXCEPT !.strokeStyle = "#0055FF",
                                   !.lineWidth = MaxPx(12, ctx.width, 50),
                                   !.shadowBlur = 60 * PX,
                                   !.shadowColor = "rgba(0, 85, 255, 1)"], x, y, w, h)
      c2 == FillRect([c1 EXCEPT !.shadowBlur = 0,
                                !.fillStyle = "rgba(0, 85, 255, 0.45)"], x, y, w, h)
      c3 == StrokeRect([c2 EXCEPT !.strokeStyle = "rgba(255, 255, 255, 1)",
                                  !.lineWidth = MaxPx(3, ctx.width, 250)], x, y, w, h)
      c4 == FillText([c3 EXCEPT !.fillStyle = "#0055FF"], "DETECTED_OIL", x, y - 10 * PX)
  IN  c4

RECURSIVE OverlayBoxes_box2Loop(_, _)
OverlayBoxes_box2Loop(ctx, list) ==
  IF list = << >> THEN ctx
  ELSE OverlayBoxes_box2Loop(OverlayBox_box2(ctx, Head(list)), Tail(list))

\* coords.forEach(...)
OverlayBoxes_box2(ctx, coords) ==
  IF ~coords.defined THEN [ctx EXCEPT !.thrown = TRUE]      \* undefined.forEach
  ELSE OverlayBoxes_box2Loop(ctx, coords.items)

generateOverlay_box2(img, coords, ctxOk) ==
  IF ~ctxOk THEN Resolve(EmptyStr)
  ELSE Finish(OverlayBoxes_box2(DrawImage(NewCanvas(img.width, img.height)), coords))

-----------------------------------------------------------------------------
(* A rasterization call: `new Promise(resolve => { img = new Image();      *)
(* img.onload = ...; img.src = originalImage })`.  No onerror handler is   *)
(* installed by any of the functions.                                      *)

IdleCall ==
  [st |-> "idle", img |-> NoImage, shapes |-> Absent, land |-> Absent,
   settled |-> FALSE, value |-> EmptyStr, threw |-> FALSE]

\* the promise executor: the image starts decoding, the promise is pending
NewCall(img, shapes, land) ==
  [st |-> "decoding", img |-> img, shapes |-> shapes, land |-> land,
   settled |-> FALSE, value |-> EmptyStr, threw |-> FALSE]

\* the end of an onload handler: resolve(value), or an exception that leaves
\* the handler before resolve is reached
Settle(call, out) ==
  IF out.kind = "throw"
    THEN [call EXCEPT !.st = "loaded", !.threw = TRUE]
    ELSE [call EXCEPT !.st = "loaded", !.settled = TRUE, !.value = out.value]

GTMask_onload ==
  /\ variant = "poly" /\ calls["gt"].st = "decoding"
  /\ \E ctxOk \in BOOLEAN :
       calls' = [calls EXCEPT !["gt"] =
                   Settle(@, generateGTReferenceMask(@.img, @.shapes, @.land, ctxOk))]
  /\ download' = NoDownload /\ assets' = NoAssets /\ UNCHANGED <<idx, charts, variant, appVars>>

PredictedMask_onload ==
  /\ variant = "poly" /\ calls["pred"].st = "decoding"
  /\ \E ctxOk \in BOOLEAN :
       calls' = [calls EXCEPT !["pred"] =
                   Settle(@, generatePredictedMask(@.img, @.shapes, ctxOk))]
  /\ download' = NoDownload /\ assets' = NoAssets /\ UNCHANGED <<idx, charts, variant, appVars>>

FinalOverlay_onload ==
  /\ variant = "poly" /\ calls["ovl"].st = "decoding"
  /\ \E ctxOk \in BOOLEAN :
       calls' = [calls EXCEPT !["ovl"] =
                   Settle(@, generateFinalOverlay(@.img, @.shapes, ctxOk))]
  /\ download' = NoDownload /\ assets' = NoAssets /\ UNCHANGED <<idx, charts, variant, appVars>>

PredictedMask_box_onload ==
  /\ variant = "box" /\ calls["pred"].st = "decoding"
  /\ \E ctxOk \in BOOLEAN :
       calls' = [calls EXCEPT !["pred"] =
                   Settle(@, generatePredictedMask_box(@.img, @.shapes, ctxOk))]
  /\ download' = NoDownload /\ assets' = NoAssets /\ UNCHANGED <<idx, charts, variant, appVars>>

Overlay_box_onload ==
  /\ variant = "box" /\ calls["ovl"].st = "decoding"
  /\ \E ctxOk \in BOOLEAN :
       calls' = [calls EXCEPT !["ovl"] =
                   Settle(@, generateOverlay_box(@.img, @.shapes, ctxOk))]
  /\ download' = NoDownload /\ assets' = NoAssets /\ UNCHANGED <<idx, charts, variant, appVars>>

PredictedMask_box2_onload ==
  /\ variant = "box2" /\ calls["pred"].st = "decoding"
  /\ \E ctxOk \in BOOLEAN :
       calls' = [calls EXCEPT !["pred"] =
                   Settle(@, generatePredictedMask_box2(@.img, @.shapes, ctxOk))]
  /\ download' = NoDownload /\ assets' = NoAssets /\ UNCHANGED <<idx, charts, variant, appVars>>

Overlay_box2_onload ==
  /\ variant = "box2" /\ calls["ovl"].st = "decoding"
  /\ \E ctxOk \in BOOLEAN :
       calls' = [calls EXCEPT !["ovl"] =
                   Settle(@, generateOverlay_box2(@.img, @.shapes, ctxOk))]
  /\ download' = NoDownload /\ assets' = NoAssets /\ UNCHANGED <<idx, charts, variant, appVars>>

\* the image fails to decode: the error event finds no handler
ImgError ==
  /\ \E k \in Kinds :
       /\ calls[k].st = "decoding"
       /\ calls' = [calls EXCEPT ![k].st = "error"]
  /\ download' = NoDownload /\ assets' = NoAssets /\ UNCHANGED <<idx, charts, variant, appVars>>

Handlers ==
  \/ GTMask_onload
  \/ PredictedMask_onload
  \/ FinalOverlay_onload
  \/ PredictedMask_box_onload
  \/ Overlay_box_onload
  \/ PredictedMask_box2_onload
  \/ Overlay_box2_onload
  \/ ImgError

-----------------------------------------------------------------------------
(* Numbers of the chart functions.  A JavaScript number is kept as an      *)
(* exact rational n/d in lowest terms with d > 0; NotFinite stands for the *)
(* values NaN, Infinity and -Infinity.  Rounding of the 64-bit floats is   *)
(* not modelled.                                                           *)

RECURSIVE GCD(_, _)
GCD(a, b) == IF b = 0 THEN a ELSE GCD(b, a % b)
AbsInt(a) == IF a < 0 THEN -a ELSE a

NotFinite == [n |-> 0, d |-> 0]
Q(a, b) ==
  IF b = 0 THEN NotFinite
  ELSE LET g == GCD(AbsInt(a), AbsInt(b))
           s == IF b < 0 THEN -1 ELSE 1
       IN  [n |-> (s * a) \div g, d |-> (s * b) \div g]
Num(i) == Q(i, 1)
IsFinite(q) == q.d # 0

QAdd(p, q) == IF IsFinite(p) /\ IsFinite(q) THEN Q(p.n * q.d + q.n * p.d, p.d * q.d)
              ELSE NotFinite
QSub(p, q) == IF IsFinite(p) /\ IsFinite(q) THEN Q(p.n * q.d - q.n * p.d, p.d * q.d)
              ELSE NotFinite
QMul(p, q) == IF IsFinite(p) /\ IsFinite(q) THEN Q(p.n * q.n, p.d * q.d)
              ELSE NotFinite
\* x / 0 is NaN or an infinity
QDiv(p, q) == IF IsFinite(p) /\ IsFinite(q) THEN Q(p.n * q.d, p.d * q.n)
              ELSE NotFinite
\* comparisons with NaN are false
QLe(p, q) == IsFinite(p) /\ IsFinite(q) /\ p.n * q.d <= q.n * p.d
QLt(p, q) == IsFinite(p) /\ IsFinite(q) /\ p.n * q.d <  q.n * p.d

Pt(px, py) == [x |-> px, y |-> py]

\* the point (center + r*cos(angle), center + r*sin(angle)) for the angle of
\* i steps of 2*pi/n, kept by its distance from the centre and the fraction
\* of a turn of its ray (clockwise from the positive x axis, y pointing
\* down); cos and sin have period one turn, a negative distance lies on the
\* opposite ray, and the centre lies on every ray.  With n = 0 the step is
\* Infinity and cos, sin of it are NaN.
Polar(center, r, i, n) ==
  IF n = 0 \/ ~IsFinite(r) THEN [c |-> center, dist |-> NotFinite, turn |-> NotFinite]
  ELSE IF r.n = 0 THEN [c |-> center, dist |-> r, turn |-> Num(0)]
  ELSE IF r.n > 0 THEN [c |-> center, dist |-> r, turn |-> Q(i % n, n)]
  ELSE [c |-> center, dist |-> QSub(Num(0), r), turn |-> Q((2 * i + n) % (2 * n), 2 * n)]

\* the point (center + r, center) written without an angle
OnAxis(center, r) ==
  IF ~IsFinite(r) THEN [c |-> center, dist |-> NotFinite, turn |-> NotFinite]
  ELSE IF r.n >= 0 THEN [c |-> center, dist |-> r, turn |-> Num(0)]
  ELSE [c |-> center, dist |-> QSub(Num(0), r), turn |-> Q(1, 2)]

-----------------------------------------------------------------------------
(* src/constants.tsx                                                       *)

Palette ==
  [primary |-> "#F97316", secondary |-> "#0A192F", success |-> "#4ADE80",
   danger |-> "#EF4444", info |-> "#0055FF", white |-> "#FFFFFF", dark |-> "#000000",
   text |-> "#F1F5F9", border |-> "rgba(249, 115, 22, 0.2)"]

\* COLORS.key inside a template literal: a missing key prints "undefined"
COLORS(key) == IF key \in DOMAIN Palette THEN Palette[key] ELSE "undefined"

TrainingMetricPoint(e, l, iou, acc) ==
  [epoch |-> e, trainLoss |-> l, valIoU |-> iou, valAccuracy |-> acc]

MOCK_TRAINING_HISTORY ==
  << TrainingMetricPoint(1,  Q(85, 100), Q(42, 100), Q(785, 10)),
     TrainingMetricPoint(5,  Q(62, 100), Q(58, 100), Q(842, 10)),
     TrainingMetricPoint(10, Q(45, 100), Q(69, 100), Q(891, 10)),
     TrainingMetricPoint(15, Q(38, 100), Q(74, 100), Q(925, 10)),
     TrainingMetricPoint(20, Q(31, 100), Q(81, 100), Q(948, 10)),
     TrainingMetricPoint(25, Q(28, 100), Q(84, 100), Q(962, 10)),
     TrainingMetricPoint(30, Q(25, 100), Q(88, 100), Q(974, 10)) >>

MetricPoint(s, v, f) == [subject |-> s, value |-> v, fullMark |-> f]

-----------------------------------------------------------------------------
(* Static SVG back-end.  Three revisions of the generators are in the      *)
(* repository: "rg1" (src/utils/reportGenerator.ts, lines 8-124), "rg2"    *)
(* (the same file, lines 134-263) and "mc" (src/components/MetricsChart.   *)
(* tsx, lines 201-315).  An SVG document is kept as the list of its        *)
(* elements with their numeric attributes.                                 *)

ChartRevisions == {"rg1", "rg2", "mc"}

Markup(svg)  == [kind |-> "svg", svg |-> svg]
TypeError    == [kind |-> "throw"]

\* the series an area chart plots, with the value that reaches the top
PerformanceSeries(rev) == IF rev = "mc" THEN "valAccuracy" ELSE "valIoU"
PerformanceMaxVal(rev) == IF rev = "mc" THEN 100 ELSE 1

\* getX with the first and last point on the two vertical edges
GetXInset(i, n) == QAdd(Num(40), QMul(QDiv(Num(i), Num(n)), Num(800 - 40 * 2)))

\* const getX = (i) => padding + (i / (history.length - 1)) * chartWidth
GetX(i, n) == QAdd(Num(40), QMul(QDiv(Num(i), Num(n - 1)), Num(800 - 40 * 2)))

\* const getY = (val) => height - padding - (val / maxVal) * chartHeight
GetY(val, maxVal) ==
  QSub(Num(300 - 40), QMul(QDiv(val, Num(maxVal)), Num(300 - 40 * 2)))

\* history.forEach((point, i) => path += ` L ${getX(i)} ${getY(point[series])}`)
PerformancePoints(history, series, maxVal) ==
  [i \in 1..Len(history) |->
     Pt(GetX(i - 1, Len(history)), GetY(history[i][series], maxVal))]

generatePerformanceSvg(rev, history, dr) ==
  LET n       == Len(history)
      series  == PerformanceSeries(rev)
      maxVal  == PerformanceMaxVal(rev)
      base    == Num(300 - 40)
      plotted == PerformancePoints(history, series, maxVal)
      area    == <<Pt(GetX(0, n), base)>> \o plotted \o <<Pt(GetX(n - 1, n), base)>>
  IN  IF rev = "mc"
        THEN \* history[0].valAccuracy throws on an empty history
             IF n = 0 THEN TypeError
             ELSE Markup(
               [chart |-> "performance", width |-> 800, height |-> 300,
                series |-> <<series>>, domain |-> [lo |-> Num(0), hi |-> Num(maxVal)],
                area |-> [pts |-> area, closed |-> TRUE, fill |-> COLORS("primary"),
                          stroke |-> "none"],
                line |-> [pts |-> <<Pt(GetX(0, n), GetY(history[1][series], maxVal))>>
                                    \o plotted,
                          closed |-> FALSE, fill |-> "none",
                          stroke |-> COLORS("primary")],
                mission |-> [set |-> FALSE]])
        ELSE Markup(
               [chart |-> "performance", width |-> 800, height |-> 300,
                series |-> <<series>>, domain |-> [lo |-> Num(0), hi |-> Num(maxVal)],
                area |-> [pts |-> area, closed |-> TRUE,
                          fill |-> COLORS(IF rev = "rg1" THEN "primary" ELSE "secondary"),
                          stroke |-> COLORS(IF rev = "rg1" THEN "primary" ELSE "secondary")],
                line |-> [pts |-> << >>, closed |-> FALSE, fill |-> "none",
                          stroke |-> "none"],
                mission |->
                  IF dr.set
                    THEN [set |-> TRUE,
                          x1 |-> Num(40), x2 |-> Num(800 - 40),
                          y |-> GetY(dr.iou, maxVal),
                          stroke |-> COLORS(IF rev = "rg1" THEN "success" ELSE "primary")]
                    ELSE [set |-> FALSE]])

\* the three named metrics of the bar chart, in the order of the array literal
BarMetrics(rev, dr) ==
  << [label |-> "Confidence", val |-> dr.confidence, color |-> COLORS("primary")],
     [label |-> "IoU Fidelity", val |-> dr.iou,
      color |-> COLORS(IF rev = "rg1" THEN "success" ELSE "secondary")],
     [label |-> "Segmentation", val |-> dr.technicalDetails.segmentationFidelity,
      color |-> COLORS(IF rev = "rg1" THEN "secondary" ELSE "warning")] >>

\* the bar drawn over the whole width between the paddings
BarRowFullWidth(m, i) ==
  LET y == i * 60 + 40
      barW == QMul(Num(800 - 40 * 2), m.val)
  IN  [label |-> m.label, y |-> y,
       track |-> [x |-> 40 + 150, y |-> y, width |-> 800 - 40 * 2 - 150, height |-> 25],
       bar   |-> [x |-> 40 + 150, y |-> y, width |-> barW, height |-> 25,
                  fill |-> m.color],
       text  |-> [x |-> QAdd(Num(40 + 150 + 10), barW), y |-> y + 18,
                  percent |-> QMul(m.val, Num(100))]]

\* metrics.forEach((m, i) => ...), i counted from 0
BarRow(m, i) ==
  LET y == i * 60 + 40
      barW == QMul(Num(800 - 40 * 2 - 150), m.val)
  IN  [label |-> m.label, y |-> y,
       track |-> [x |-> 40 + 150, y |-> y, width |-> 800 - 40 * 2 - 150, height |-> 25],
       bar   |-> [x |-> 40 + 150, y |-> y, width |-> barW, height |-> 25,
                  fill |-> m.color],
       text  |-> [x |-> QAdd(Num(40 + 150 + 10), barW), y |-> y + 18,
                  percent |-> QMul(m.val, Num(100))]]

generateMetricsBarSvg(rev, dr) ==
  LET metrics == BarMetrics(rev, dr)
  IN  Markup([chart |-> "bars", width |-> 800, height |-> Len(metrics) * 60 + 40,
              rows |-> [i \in 1..Len(metrics) |-> BarRow(metrics[i], i - 1)]])

\* const radius = size * 0.35 (reportGenerator.ts), size * 0.4 (MetricsChart.tsx)
RadarRadius(rev) == IF rev = "mc" THEN Q(400 * 4, 10) ELSE Q(400 * 35, 100)
RadarLabelGap(rev) == IF rev = "mc" THEN 20 ELSE 25

\* [0.2, 0.4, 0.6, 0.8, 1]
RingRadii == <<Q(2, 10), Q(4, 10), Q(6, 10), Q(8, 10), Num(1)>>

\* one grid ring: M at angle 0, then L for i = 1 .. metrics.length
RadarRing(rev, rel, n) ==
  LET center == 400 \div 2
      r == QMul(RadarRadius(rev), rel)
  IN  [rel |-> rel,
       pts |-> <<OnAxis(center, r)>> \o [i \in 1..n |-> Polar(center, r, i, n)],
       closed |-> rev # "mc"]

\* the data vertex laid at the ray of the following metric
RadarVertexShifted(rev, m, i, n) ==
  Polar(400 \div 2, QMul(QDiv(m.value, m.fullMark), RadarRadius(rev)), i + 1, n)

\* const r = (m.value / m.fullMark) * radius, at angle i * angleStep
RadarVertex(rev, m, i, n) ==
  Polar(400 \div 2, QMul(QDiv(m.value, m.fullMark), RadarRadius(rev)), i, n)

generateRadarSvg(rev, metrics) ==
  LET n == Len(metrics)
      center == 400 \div 2
  IN  Markup([chart |-> "radar", width |-> 400, height |-> 400,
              rings |-> [k \in 1..Len(RingRadii) |-> RadarRing(rev, RingRadii[k], n)],
              poly |-> [pts |-> [i \in 1..n |-> RadarVertex(rev, metrics[i], i - 1, n)],
                        closed |-> TRUE, fill |-> COLORS("primary"),
                        stroke |-> COLORS("primary")],
              labels |-> [i \in 1..n |->
                            [at |-> Polar(center,
                                          QAdd(RadarRadius(rev), Num(RadarLabelGap(rev))),
                                          i - 1, n),
                             text |-> metrics[i].subject]]])

-----------------------------------------------------------------------------
(* Interactive back-end: the chart widgets, kept as the properties their   *)
(* JSX hands to the charting library.                                      *)

Widget(w) == [kind |-> "widget", widget |-> w]

\* <AreaChart data={MOCK_TRAINING_HISTORY}> with two <Area> and, with a result,
\* a <ReferenceLine>; <YAxis> carries no domain
PerformanceChart(dr) ==
  Widget([chart |-> "performance", data |-> MOCK_TRAINING_HISTORY, xKey |-> "epoch",
          series |-> <<"valIoU", "trainLoss">>,
          domain |-> [auto |-> TRUE],
          reference |-> IF dr.set THEN [set |-> TRUE, y |-> dr.iou]
                        ELSE [set |-> FALSE]])

\* <BarChart layout="vertical" data={data}> with <XAxis type="number" domain={[0, 1]}>
MetricsBarChart(dr) ==
  LET final == MOCK_TRAINING_HISTORY[Len(MOCK_TRAINING_HISTORY)]
  IN  Widget([chart |-> "bars",
              rows |-> << [name |-> "Model Confidence",
                           value |-> IF dr.set THEN dr.confidence
                                     ELSE QDiv(final.valAccuracy, Num(100)),
                           color |-> COLORS("primary")],
                          [name |-> "Segmentation IoU",
                           value |-> IF dr.set THEN dr.iou ELSE final.valIoU,
                           color |-> COLORS("secondary")],
                          [name |-> "Fidelity Score",
                           value |-> IF dr.set THEN dr.technicalDetails.segmentationFidelity
                                     ELSE Q(85, 100),
                           color |-> COLORS("warning")] >>,
              domain |-> [lo |-> Num(0), hi |-> Num(1)]])

\* <RadarChart data={result.radarMetrics}><PolarGrid/><PolarAngleAxis dataKey="subject"/>
\* <Radar dataKey="value"/>: no radius axis, no start angle, fullMark is not read
RadarChart(dr) ==
  Widget([chart |-> "radar",
          data |-> IF dr.set THEN dr.radarMetrics ELSE << >>,
          angleKey |-> "subject", series |-> <<"value">>,
          domain |-> [auto |-> TRUE]])

-----------------------------------------------------------------------------
(* Inputs *)

RECURSIVE SeqsUpTo(_, _)
SeqsUpTo(S, n) ==
  IF n = 0 THEN {<< >>}
  ELSE LET shorter == SeqsUpTo(S, n - 1)
       IN  shorter \cup {Append(q, e) : q \in shorter, e \in S}

\* upper-left triangle; a band reaching beyond the right, top and bottom edges;
\* a two-point "polygon"
Tri   == <<P(0, 0), P(100, 0), P(0, 100)>>
Wide  == <<P(50, -20), P(120, -20), P(120, 120), P(50, 120)>>
Short == <<P(10, 10), P(90, 90)>>

PolygonLists == SeqsUpTo({Tri, Wide, Short}, MaxShapes)
PolygonArgs  == {Arr(l) : l \in PolygonLists} \cup {Absent}

\* the box of scenario A; boxes of zero width, of zero height, of both
BoxA     == B(10, 10, 20, 20)
BoxThin  == B(50, 20, 0, 60)
BoxFlat  == B(40, 70, 50, 0)
BoxPoint == B(80, 40, 0, 0)

BoxLists == SeqsUpTo({BoxA, BoxThin, BoxFlat, BoxPoint}, MaxShapes)
BoxArgs  == {Arr(l) : l \in BoxLists} \cup {Absent}

PolyImage     == Img("sar-6x4", 6, 4)
BoxImage      == Img("sar-20x10", 20, 10)
ScenarioImage == Img("sar-200x200", 200, 200)

\* histories: the first points of the training history, and one whose values
\* leave the range of the axis
OutOfRangeHistory ==
  << TrainingMetricPoint(1, Q(9, 10), Q(12, 10), Num(120)),
     TrainingMetricPoint(2, Q(5, 10), Q(-1, 10), Num(-5)),
     TrainingMetricPoint(3, Q(1, 10), Q(1, 2), Num(50)) >>

ChartHistories ==
  {SubSeq(MOCK_TRAINING_HISTORY, 1, n) :
     n \in 0..Min(MaxHistory, Len(MOCK_TRAINING_HISTORY))}
  \cup {OutOfRangeHistory}

\* radar metrics: scenario C, a metric without full mark, and the first
\* metrics of a list with values at, below and above the full mark
ScenarioC == <<MetricPoint("A", Num(50), Num(100)), MetricPoint("B", Num(100), Num(100))>>
RadarBase ==
  << MetricPoint("Thickness", Num(80), Num(100)),
     MetricPoint("Spread", Num(100), Num(100)),
     MetricPoint("Density", Num(50), Num(100)),
     MetricPoint("Toxicity", Num(120), Num(100)),
     MetricPoint("Drift", Num(0), Num(100)),
     MetricPoint("Depth", Num(30), Num(60)),
     MetricPoint("Age", Num(75), Num(150)) >>
RadarLists ==
  {SubSeq(RadarBase, 1, n) : n \in 0..Min(MaxMetrics, Len(RadarBase))}
  \cup {ScenarioC, <<MetricPoint("Z", Num(5), Num(0))>>}

ChartResult(c, i, f, metrics) ==
  [set |-> TRUE, confidence |-> c, iou |-> i,
   technicalDetails |-> [segmentationFidelity |-> f], radarMetrics |-> metrics]
NoChartResult == [set |-> FALSE]

\* scalar metrics inside [0, 1], at its two ends, and outside it
ChartResults ==
  {ChartResult(Q(95, 100), Q(8, 10), Q(9, 10), m) : m \in RadarLists}
  \cup {ChartResult(Num(0), Num(1), Q(1, 2), ScenarioC),
        ChartResult(Q(3, 2), Q(12, 10), Q(-1, 10), ScenarioC)}

-----------------------------------------------------------------------------
(* Initial state *)

NoResult == [set |-> FALSE]
NoRes    == [set |-> FALSE]

Init ==
  /\ variant \in Variants
  /\ selectedImage = NoImage
  /\ maskImage = NoImage
  /\ analyzing = FALSE
  /\ result = NoResult
  /\ logs = << >>
  /\ activeMenu = "Upload Images"
  /\ pc = "idle"
  /\ closure = [selectedImage |-> NoImage, maskImage |-> NoImage]
  /\ res = NoRes
  /\ calls = [k \in Kinds |-> IdleCall]
  /\ download = NoDownload
  /\ assets = NoAssets
  /\ idx = NoInterval
  /\ charts = NoCharts

-----------------------------------------------------------------------------
(* The rasterizers on their own: each function is called once, on every    *)
(* input of the bounded sets, and its image decodes or fails.              *)

NoCallYet == \A k \in Kinds : calls[k].st = "idle"

Call_generateGTReferenceMask ==
  /\ variant = "poly" /\ NoCallYet
  /\ \E spill \in PolygonArgs, land \in PolygonArgs :
       calls' = [calls EXCEPT !["gt"] = NewCall(PolyImage, spill, land)]
  /\ download' = NoDownload /\ assets' = NoAssets /\ UNCHANGED <<idx, charts, variant, appVars>>

Call_generatePredictedMask ==
  /\ NoCallYet
  /\ \/ /\ variant = "poly"
        /\ \E polygons \in PolygonArgs :
             calls' = [calls EXCEPT !["pred"] = NewCall(PolyImage, polygons, Absent)]
     \/ /\ variant \in {"box", "box2"}
        /\ \E coords \in BoxArgs :
             calls' = [calls EXCEPT !["pred"] = NewCall(BoxImage, coords, Absent)]
     \/ /\ variant \in {"box", "box2"}
        /\ calls' = [calls EXCEPT !["pred"] =
                       NewCall(ScenarioImage, Arr(<<BoxA>>), Absent)]
  /\ download' = NoDownload /\ assets' = NoAssets /\ UNCHANGED <<idx, charts, variant, appVars>>

Call_generateOverlay ==
  /\ NoCallYet
  /\ \/ /\ variant = "poly"
        /\ \E polygons \in PolygonArgs :
             calls' = [calls EXCEPT !["ovl"] = NewCall(PolyImage, polygons, Absent)]
     \/ /\ variant \in {"box", "box2"}
        /\ \E coords \in BoxArgs :
             calls' = [calls EXCEPT !["ovl"] = NewCall(BoxImage, coords, Absent)]
  /\ download' = NoDownload /\ assets' = NoAssets /\ UNCHANGED <<idx, charts, variant, appVars>>

RasterNext ==
  \/ Call_generateGTReferenceMask
  \/ Call_generatePredictedMask
  \/ Call_generateOverlay
  \/ Handlers

RasterSpec == Init /\ [][RasterNext]_vars

-----------------------------------------------------------------------------
(* The chart functions on their own: a data series is fixed, then each     *)
(* widget is rendered and each generator is called on it, in any order.    *)

ChartSlots == {"PerformanceChart", "MetricsBarChart", "RadarChart",
               "generatePerformanceSvg", "generateMetricsBarSvg", "generateRadarSvg"}

NoOutput == [kind |-> "none"]

ChartData ==
  /\ ~charts.set
  /\ \E rev \in ChartRevisions, history \in ChartHistories,
        dr \in ChartResults \cup {NoChartResult} :
       charts' = [set |-> TRUE, rev |-> rev, history |-> history, dr |-> dr,
                  out |-> [slot \in ChartSlots |-> NoOutput]]
  /\ download' = NoDownload /\ assets' = NoAssets
  /\ UNCHANGED <<idx, variant, appVars, calls>>

Produce(slot, output) ==
  /\ charts.set /\ charts.out[slot] = NoOutput
  /\ charts' = [charts EXCEPT !.out[slot] = output]
  /\ download' = NoDownload /\ assets' = NoAssets
  /\ UNCHANGED <<idx, variant, appVars, calls>>

Render_PerformanceChart ==
  charts.set /\ Produce("PerformanceChart", PerformanceChart(charts.dr))

Render_MetricsBarChart ==
  charts.set /\ Produce("MetricsBarChart", MetricsBarChart(charts.dr))

\* the radar widget is mounted once there is a result (part_005), or on
\* `result?.radarMetrics || []` (App.tsx)
Render_RadarChart ==
  /\ charts.set
  /\ variant = "poly" => charts.dr.set
  /\ Produce("RadarChart", RadarChart(charts.dr))

Call_generatePerformanceSvg ==
  /\ charts.set
  /\ Produce("generatePerformanceSvg",
             generatePerformanceSvg(charts.rev, charts.history, charts.dr))

Call_generateMetricsBarSvg ==
  /\ charts.set /\ charts.dr.set
  /\ Produce("generateMetricsBarSvg", generateMetricsBarSvg(charts.rev, charts.dr))

Call_generateRadarSvg ==
  /\ charts.set /\ charts.dr.set
  /\ Produce("generateRadarSvg", generateRadarSvg(charts.rev, charts.dr.radarMetrics))

ChartNext ==
  \/ ChartData
  \/ Render_PerformanceChart
  \/ Render_MetricsBarChart
  \/ Render_RadarChart
  \/ Call_generatePerformanceSvg
  \/ Call_generateMetricsBarSvg
  \/ Call_generateRadarSvg

ChartSpec == Init /\ [][ChartNext]_vars

-----------------------------------------------------------------------------
(* AreaDensityChart, src/components/MetricsChart.tsx.  A string is kept as *)
(* the sequence of its characters.                                         *)

\* longest text whose characters are enumerated
MaxText == 3

\* the integer digits of the largest double, 1.797...e308
DoubleDigits == 309

Infinity == [n |-> 1, d |-> 0]

DigitChars == <<"0", "1", "2", "3", "4", "5", "6", "7", "8", "9">>
IsDigit(c) == \E i \in 1..10 : DigitChars[i] = c
DigitValue(c) == (CHOOSE i \in 1..10 : DigitChars[i] = c) - 1

\* areaEstimate.replace(/[^0-9.]/g, '')
StripNonNumeric(text) == SelectSeq(text, LAMBDA c : IsDigit(c) \/ c = ".")

\* the first position from i on that holds no character of the set
FirstOutside(text, i, chars) ==
  LET stops == {j \in i..(Len(text) + 1) : j = Len(text) + 1 \/ text[j] \notin chars}
  IN  CHOOSE j \in stops : \A k \in stops : j <= k

\* length of the run of digits of text that starts at position i
DigitRun(text, i) ==
  IF i > Len(text) THEN 0
  ELSE FirstOutside(text, i, {DigitChars[d] : d \in 1..10}) - i

\* the run of digits without its leading zeros
Significant(digits) ==
  SubSeq(digits, FirstOutside(digits, 1, {"0"}), Len(digits))

\* the natural number a run of digits writes
RECURSIVE DigitsValue(_)
DigitsValue(digits) ==
  IF digits = << >> THEN 0
  ELSE 10 * DigitsValue(SubSeq(digits, 1, Len(digits) - 1)) + DigitValue(digits[Len(digits)])

RECURSIVE Pow10(_)
Pow10(k) == IF k = 0 THEN 1 ELSE 10 * Pow10(k - 1)

\* parseFloat on a text of digits and dots: the longest prefix of the form
\* digits [. digits] or . digits; NaN without one; Infinity above the largest
\* double.  Exact for numbers of fewer than 10 digits and decided by the
\* number of integer digits beyond DoubleDigits; rounding is not modelled.
parseFloat(text) ==
  LET ni       == DigitRun(text, 1)
      dot      == ni + 1 <= Len(text) /\ text[ni + 1] = "."
      nf       == IF dot THEN DigitRun(text, ni + 2) ELSE 0
      integer  == Significant(SubSeq(text, 1, ni))
      fraction == SubSeq(text, ni + 2, ni + 1 + nf)
  IN  IF ni = 0 /\ nf = 0 THEN NotFinite
      ELSE IF Len(integer) > DoubleDigits THEN Infinity
      ELSE QAdd(Num(DigitsValue(integer)), Q(DigitsValue(fraction), Pow10(nf)))

\* `x || 50`: NaN and 0 are falsy
OrFifty(x) == IF x = NotFinite \/ x = Num(0) THEN Num(50) ELSE x

\* const areaValue = parseFloat(result.areaEstimate.replace(/[^0-9.]/g, '')) || 50
AreaValue(areaEstimate) == OrFifty(parseFloat(StripNonNumeric(areaEstimate)))

\* the widget: 20 points; point i has x = i - 10 and density
\* exp(-x*x / (areaValue/5)) * areaValue, which at x = 0 is areaValue itself
\* (the other densities are not computed: exp is not modelled)
AreaDensityChart(areaEstimate) ==
  LET areaValue == AreaValue(areaEstimate)
  IN  Widget([chart |-> "density", length |-> 20, areaValue |-> areaValue,
              peak |-> [name |-> 10, density |-> QMul(Num(1), areaValue)]])

\* texts over the characters of "4.0 km", "-4", "40." and the like
TextChars == {"4", "0", ".", "k", "-"}
RECURSIVE TextsOfLength(_)
TextsOfLength(k) ==
  IF k = 0 THEN {<< >>}
  ELSE {Append(t, c) : t \in TextsOfLength(k - 1), c \in TextChars}

\* a text that writes a number beyond the largest double
LongNumber == [i \in 1..(DoubleDigits + 1) |-> "4"]

AreaTexts == UNION {TextsOfLength(k) : k \in 0..MaxText} \cup {LongNumber}

\* a result with its areaEstimate reaches the chart panel
DensityData ==
  /\ ~charts.set
  /\ \E text \in AreaTexts :
       charts' = [set |-> TRUE, areaEstimate |-> text, out |-> NoOutput]
  /\ download' = NoDownload /\ assets' = NoAssets
  /\ UNCHANGED <<idx, variant, appVars, calls>>

Render_AreaDensityChart ==
  /\ charts.set /\ charts.out = NoOutput
  /\ charts' = [charts EXCEPT !.out = AreaDensityChart(charts.areaEstimate)]
  /\ download' = NoDownload /\ assets' = NoAssets
  /\ UNCHANGED <<idx, variant, appVars, calls>>

DensityNext ==
  \/ DensityData
  \/ Render_AreaDensityChart

DensitySpec == Init /\ [][DensityNext]_vars

-----------------------------------------------------------------------------
(* The application: src/unnamed/part_005 ("poly"), src/App.tsx ("box",     *)
(* "box2").  runUnet is an async function: each await is a position of pc, *)
(* and the code between two awaits is one step.                            *)

LogLimit == 15

\* addLog: setLogs(prev => [msg, ...prev].slice(0, 15))
addLog(prev, msg) == SubSeq(<<msg>> \o prev, 1, Min(LogLimit, Len(prev) + 1))

Menus ==
  IF variant = "poly"
    THEN {"Upload Images", "View Results", "Visuals & Charts", "Download Options"}
    ELSE {"Upload Images", "View Results", "Visuals & Charts", "Report & Summary",
          "Download Options"}

AppImages  == {PolyImage, BoxImage}
MaskImages == {Img("mask-20x10", 20, 10)}

\* the scalar fields of an analysis result, the same in every result below
Briefing(spill, impact) ==
  [set |-> TRUE, spillFound |-> spill, confidence |-> Q(95, 100), iou |-> Q(8, 10),
   areaEstimate |-> "4.2 km2", description |-> "briefing",
   environmentalImpact |-> impact,
   technicalDetails |-> [spectralSignature |-> "signature", denoisingStatus |-> "status",
                         segmentationFidelity |-> Q(9, 10)],
   radarMetrics |-> ScenarioC]

PolygonResult(spill, impact, gt, pred, land) ==
  Briefing(spill, impact) @@
  [groundTruthPolygons |-> gt, predictedPolygons |-> pred, landPolygons |-> land]

BoxResult(spill, impact, coords) ==
  Briefing(spill, impact) @@ [coordinates |-> coords]

\* what analyzeOilSpill may resolve to: JSON.parse of the model's answer, cast
\* unchecked to DetectionResult
AnalysisResults ==
  IF variant = "poly"
    THEN {PolygonResult(TRUE, "Critical", Arr(<<Tri>>), Arr(<<Wide>>), Arr(<<Wide>>)),
          PolygonResult(FALSE, "Critical", Arr(<< >>), Arr(<< >>), Absent),
          PolygonResult(TRUE, "Low", Absent, Arr(<<Tri>>), Arr(<< >>)),
          PolygonResult(TRUE, "Low", Arr(<<Short, Tri>>), Absent, Absent),
          PolygonResult(TRUE, "Low", Arr(<< >>), Arr(<<Wide>>), Absent)}
    ELSE {BoxResult(TRUE, "Low", Arr(<<BoxA>>)),
          BoxResult(FALSE, "Critical", Arr(<< >>)),
          BoxResult(TRUE, "Moderate", Arr(<<BoxA, BoxThin>>)),
          BoxResult(TRUE, "Low", Absent)}

\* file input onChange: setSelectedImage(await fileToBase64(file))
SelectImage ==
  /\ \E img \in AppImages : selectedImage' = img
  /\ download' = NoDownload /\ assets' = NoAssets /\ UNCHANGED <<idx, charts, variant, maskImage, analyzing, result, logs, activeMenu, pc, closure,
                 res, calls>>

\* mask input onChange (src/App.tsx): setMaskImage(await fileToBase64(file))
SelectMask ==
  /\ variant \in {"box", "box2"}
  /\ \E img \in MaskImages : maskImage' = img
  /\ download' = NoDownload /\ assets' = NoAssets /\ UNCHANGED <<idx, charts, variant, selectedImage, analyzing, result, logs, activeMenu, pc,
                 closure, res, calls>>

switchMenu ==
  /\ \E menu \in Menus : activeMenu' = menu
  /\ download' = NoDownload /\ assets' = NoAssets /\ UNCHANGED <<idx, charts, variant, selectedImage, maskImage, analyzing, result, logs, pc,
                 closure, res, calls>>

\* the handler behind a button that is not disabled while a run is in flight
runUnet_startWhileAnalyzing ==
  /\ activeMenu = "Upload Images"
  /\ selectedImage # NoImage
  /\ analyzing' = TRUE
  /\ logs' = IF variant = "poly" THEN <<"INITIATING MULTIMODAL DETECTION CORE...">>
             ELSE <<"INITIATING NEURAL CORE...">>
  /\ closure' = [selectedImage |-> selectedImage, maskImage |-> maskImage]
  /\ calls' = [k \in Kinds |-> IdleCall]
  /\ pc' = "analyze"
  /\ idx' = NoInterval
  /\ download' = NoDownload /\ assets' = NoAssets /\ UNCHANGED <<charts, variant, selectedImage, maskImage, result, activeMenu, res>>

\* click on START MISSION CORE (shown on 'Upload Images', disabled while
\* !selectedImage || analyzing): runUnet up to its first await
runUnet_start ==
  /\ activeMenu = "Upload Images"
  /\ selectedImage # NoImage /\ ~analyzing
  /\ analyzing' = TRUE
  /\ logs' = IF variant = "poly" THEN <<"INITIATING MULTIMODAL DETECTION CORE...">>
             ELSE <<"INITIATING NEURAL CORE...">>
  /\ closure' = [selectedImage |-> selectedImage, maskImage |-> maskImage]
  /\ calls' = [k \in Kinds |-> IdleCall]
  /\ pc' = "analyze"
  /\ idx' = NoInterval
  /\ download' = NoDownload /\ assets' = NoAssets /\ UNCHANGED <<charts, variant, selectedImage, maskImage, result, activeMenu, res>>

\* analyzeOilSpill resolves; runUnet runs on to its next await
runUnet_analyzed ==
  /\ pc = "analyze"
  /\ \E r \in AnalysisResults :
       /\ res' = r
       /\ IF variant = "poly"
            THEN /\ logs' = addLog(logs, "GENERATING ORGANIC MASKS... (GT vs PRED)")
                 /\ calls' = [calls EXCEPT !["gt"] =
                                NewCall(closure.selectedImage, r.groundTruthPolygons,
                                        OrEmpty(r.landPolygons))]
                 /\ pc' = "gt"
            ELSE /\ logs' = logs
                 /\ calls' = [calls EXCEPT !["pred"] =
                                NewCall(closure.selectedImage, r.coordinates, Absent)]
                 /\ pc' = "pred"
  /\ download' = NoDownload /\ assets' = NoAssets /\ UNCHANGED <<idx, charts, variant, selectedImage, maskImage, analyzing, result, activeMenu,
                 closure>>

\* a catch block that also clears the stored result
runUnet_failedClearingResult ==
  /\ pc = "analyze"
  /\ logs' = addLog(logs, IF variant = "poly" THEN "CRITICAL ERROR" ELSE "FATAL ERROR")
  /\ analyzing' = FALSE
  /\ pc' = "idle"
  /\ result' = NoResult
  /\ download' = NoDownload /\ assets' = NoAssets /\ UNCHANGED <<idx, charts, variant, selectedImage, maskImage, activeMenu, closure, res,
                 calls>>

\* analyzeOilSpill rejects: catch, then finally
runUnet_failed ==
  /\ pc = "analyze"
  /\ logs' = addLog(logs, IF variant = "poly" THEN "CRITICAL ERROR" ELSE "FATAL ERROR")
  /\ analyzing' = FALSE
  /\ pc' = "idle"
  /\ download' = NoDownload /\ assets' = NoAssets /\ UNCHANGED <<idx, charts, variant, selectedImage, maskImage, result, activeMenu, closure, res,
                 calls>>

\* the step with the predicted mask drawn from the ground-truth polygons
runUnet_gotMaskOnGroundTruth ==
  /\ variant = "poly" /\ pc = "gt" /\ calls["gt"].settled
  /\ calls' = [calls EXCEPT !["pred"] =
                 NewCall(closure.selectedImage, res.groundTruthPolygons, Absent)]
  /\ pc' = "pred"
  /\ download' = NoDownload /\ assets' = NoAssets /\ UNCHANGED <<idx, charts, variant, selectedImage, maskImage, analyzing, result, logs, activeMenu,
                 closure, res>>

\* `await generateGTReferenceMask(...)` returns; generatePredictedMask is called
runUnet_gotMask ==
  /\ variant = "poly" /\ pc = "gt" /\ calls["gt"].settled
  /\ calls' = [calls EXCEPT !["pred"] =
                 NewCall(closure.selectedImage, res.predictedPolygons, Absent)]
  /\ pc' = "pred"
  /\ download' = NoDownload /\ assets' = NoAssets /\ UNCHANGED <<idx, charts, variant, selectedImage, maskImage, analyzing, result, logs, activeMenu,
                 closure, res>>

\* `await generatePredictedMask(...)` returns; the overlay generator is called
runUnet_gotPredicted ==
  /\ pc = "pred" /\ calls["pred"].settled
  /\ calls' = [calls EXCEPT !["ovl"] =
                 NewCall(closure.selectedImage,
                         IF variant = "poly" THEN res.predictedPolygons
                         ELSE res.coordinates, Absent)]
  /\ pc' = "ovl"
  /\ download' = NoDownload /\ assets' = NoAssets /\ UNCHANGED <<idx, charts, variant, selectedImage, maskImage, analyzing, result, logs, activeMenu,
                 closure, res>>

\* the artifacts of a finished run, as setResult stores them
Visuals ==
  IF variant = "poly"
    THEN [input |-> closure.selectedImage, mask |-> calls["gt"].value,
          predicted |-> calls["pred"].value, overlay |-> calls["ovl"].value]
    ELSE [input |-> closure.selectedImage, gtMask |-> closure.maskImage,
          predictedMask |-> calls["pred"].value, overlay |-> calls["ovl"].value]

\* the last await returns: setResult, setActiveMenu, addLog, finally
runUnet_gotOverlay ==
  /\ pc = "ovl" /\ calls["ovl"].settled
  /\ result' = [set |-> TRUE, res |-> res, visuals |-> Visuals]
  /\ activeMenu' = "View Results"
  /\ logs' = addLog(logs,
               IF variant # "poly" THEN "DETECTION SUCCESSFUL. MISSION DATA LOADED."
               ELSE IF res.spillFound THEN "MISSION DATA SECURED. SPILL IDENTIFIED."
               ELSE "ANALYSIS COMPLETE. CLEAN WATER DETECTED.")
  /\ analyzing' = FALSE
  /\ pc' = "idle"
  /\ download' = NoDownload /\ assets' = NoAssets /\ UNCHANGED <<idx, charts, variant, selectedImage, maskImage, closure, res, calls>>

\* Number.prototype.toFixed(digits): the nearest multiple of 10^-digits
ToFixed(q, digits) ==
  LET scale == IF digits = 0 THEN 1 ELSE IF digits = 1 THEN 10 ELSE IF digits = 2 THEN 100
               ELSE IF digits = 3 THEN 1000 ELSE 10000
  IN  IF ~IsFinite(q) THEN NotFinite
      ELSE Q((2 * q.n * scale + q.d) \div (2 * q.d), scale)

\* String.prototype.toUpperCase on the impact levels
ToUpperCase(str) ==
  CASE str = "Critical" -> "CRITICAL"
    [] str = "Moderate" -> "MODERATE"
    [] str = "Low"      -> "LOW"
    [] str = "None"     -> "NONE"
    [] OTHER            -> str

\* `${value}` of an artifact slot inside `<img src="...">`: the data URI, the
\* empty string, or the text "null"
Interpolate(v) ==
  IF "data" \in DOMAIN v
    THEN [text |-> IF v.data THEN "data:" ELSE "", value |-> v]
    ELSE [text |-> IF v = NoImage THEN "null" ELSE "data:", value |-> v]

\* `${result.visuals?.slot}`
Src(r, slot) ==
  IF "visuals" \in DOMAIN r THEN Interpolate(r.visuals[slot])
  ELSE [text |-> "undefined", value |-> EmptyStr]

ImgTag(label, src) == [label |-> label, src |-> src]

\* the revisions of src/utils/reportGenerator.ts
ReportRevisions == {"rg1", "rg2"}

\* the three static charts exportReport generates for a result
ReportCharts(rev, dr) ==
  << generatePerformanceSvg(rev, MOCK_TRAINING_HISTORY, dr),
     generateMetricsBarSvg(rev, dr),
     generateRadarSvg(rev, dr.radarMetrics) >>

\* the fields of a result the chart generators read
ChartFields(dr) ==
  [set |-> dr.set, confidence |-> dr.confidence, iou |-> dr.iou,
   technicalDetails |-> [segmentationFidelity |-> dr.technicalDetails.segmentationFidelity],
   radarMetrics |-> dr.radarMetrics]

\* ReportCharts tabulated once over the chart fields of the analysis results
ReportChartsTable ==
  [rev \in ReportRevisions |->
     [fields \in {ChartFields(Briefing(TRUE, "Low"))} |-> ReportCharts(rev, fields)]]

\* ReportCharts(rev, dr), read from the table where it is tabulated
ChartsOfReport(rev, dr) ==
  IF ChartFields(dr) \in DOMAIN ReportChartsTable[rev]
    THEN ReportChartsTable[rev][ChartFields(dr)]
    ELSE ReportCharts(rev, ChartFields(dr))

\* the template literal of exportReport in src/unnamed/part_005
reportHtml(r, rev) ==
  [title |-> "Mission Report Dossier",
   metrics |-> [status |-> "", confidence |-> ToFixed(QMul(r.res.confidence, Num(100)), 1),
                iou |-> ToFixed(r.res.iou, 3), areaEstimate |-> r.res.areaEstimate],
   description |-> r.res.description,
   charts |-> ChartsOfReport(rev, r.res),
   images |-> << ImgTag("SAR Source Uplink", Src(r, "input")),
                 ImgTag("Ground Truth Reference", Src(r, "mask")),
                 ImgTag("AI Model Prediction", Src(r, "predicted")),
                 ImgTag("Neural Fusion Overlay", Src(r, "overlay")) >>,
   impact |-> [shown |-> FALSE],
   tables |-> << >>]

\* the template literal of exportReport in src/App.tsx
htmlContent(r) ==
  [title |-> "MISSION REPORT",
   metrics |-> [status |-> IF r.res.spillFound THEN "DETECTED" ELSE "CLEAN",
                confidence |-> ToFixed(QMul(r.res.confidence, Num(100)), 2),
                iou |-> ToFixed(r.res.iou, 4), areaEstimate |-> r.res.areaEstimate],
   description |-> r.res.description,
   charts |-> << >>,
   images |-> << ImgTag("SAR Source Imagery", Src(r, "input")),
                 ImgTag("U-Net Segmentation Mask", Src(r, "predictedMask")),
                 ImgTag("Composite Mission Overlay", Src(r, "overlay")) >>,
   impact |-> [shown |-> TRUE,
               text |-> ToUpperCase(r.res.environmentalImpact),
               color |-> IF r.res.environmentalImpact = "Critical" THEN "#ff0000"
                         ELSE "#0055ff"],
   tables |-> << [i \in DOMAIN MOCK_TRAINING_HISTORY |->
                    <<MOCK_TRAINING_HISTORY[i].epoch,
                      ToFixed(MOCK_TRAINING_HISTORY[i].trainLoss, 4),
                      ToFixed(MOCK_TRAINING_HISTORY[i].valIoU, 4),
                      ToFixed(MOCK_TRAINING_HISTORY[i].valAccuracy, 2)>>],
                 [i \in DOMAIN r.res.radarMetrics |->
                    <<r.res.radarMetrics[i].subject, r.res.radarMetrics[i].value,
                      r.res.radarMetrics[i].fullMark>>] >>]

\* a.download = ...; a.click(): the file handed to the browser
Download(name, type, content) ==
  [set |-> TRUE, fileName |-> name, type |-> type, content |-> content]

\* click on the export button of 'Download Options'; without a result the
\* handler alerts and returns.  src/App.tsx logs every export.
exportReport ==
  /\ activeMenu = "Download Options"
  /\ result.set
  /\ Len(SelectSeq(logs, LAMBDA line : line = "FULL MISSION DOC EXPORTED.")) < MaxExports
  /\ IF variant = "poly"
       THEN /\ \E rev \in ReportRevisions :
                 download' = Download("Oil_Spill_Mission_Report.html", "text/html",
                                      reportHtml(result, rev))
            /\ logs' = logs
       ELSE /\ download' = Download("Mission_Report.html", "text/html",
                                    htmlContent(result))
            /\ logs' = addLog(logs, "FULL MISSION DOC EXPORTED.")
  /\ assets' = NoAssets
  /\ UNCHANGED <<variant, selectedImage, maskImage, analyzing, result, activeMenu, pc,
                 closure, res, calls, charts, idx>>

\* JavaScript truthiness of an artifact slot: false for "" and for null
Truthy(v) == IF "data" \in DOMAIN v THEN v.data ELSE v # NoImage

\* a.href = ...; a.download = ...; a.click()
downloadImage(base64, fileName) == [fileName |-> fileName, href |-> base64]

\* the downloads exportAssets of src/App.tsx starts, one `if` per slot
AssetsOf(r) ==
  (IF Truthy(r.visuals.input)
     THEN <<downloadImage(r.visuals.input, "SAR_Input.png")>> ELSE << >>)
  \o (IF Truthy(r.visuals.predictedMask)
        THEN <<downloadImage(r.visuals.predictedMask, "Prediction_Mask.png")>> ELSE << >>)
  \o (IF Truthy(r.visuals.overlay)
        THEN <<downloadImage(r.visuals.overlay, "Mission_Overlay.png")>> ELSE << >>)

\* click on the image export button of 'Download Options'; without a result
\* the handler alerts and returns
exportAssets ==
  /\ activeMenu = "Download Options"
  /\ result.set
  /\ assets' = IF variant = "poly"
                 THEN <<downloadImage(result.visuals.overlay, "Final_Overlay.png")>>
                 ELSE AssetsOf(result)
  /\ download' = NoDownload
  /\ UNCHANGED <<variant, selectedImage, maskImage, analyzing, result, logs, activeMenu, pc,
                 closure, res, calls, charts, idx>>

\* one tile of the artifact grid: an <img>, or the EMPTY placeholder; `cover`
\* is the NO_DATA layer src/unnamed/part_005 lays over the image
Tile(label, kind, src, cover) == [label |-> label, kind |-> kind, src |-> src, cover |-> cover]

\* the artifact grid of 'View Results'
ResultsGrid(r) ==
  IF variant = "poly"
    THEN <<Tile("INPUT IMAGE", "img", r.visuals.input, FALSE),
           Tile("GROUND TRUTH MASK", "img", r.visuals.mask, ~r.res.spillFound),
           Tile("PREDICTED MASK", "img", r.visuals.predicted, ~r.res.spillFound),
           Tile("FINAL OVERLAY", "img", r.visuals.overlay, ~r.res.spillFound)>>
    ELSE LET tile(label, src) ==
               Tile(label, IF Truthy(src) THEN "img" ELSE "placeholder", src, FALSE)
         IN  <<tile("SAR SOURCE", r.visuals.input),
               tile("TRUTH REF", r.visuals.gtMask),
               tile("PREDICTION", r.visuals.predictedMask),
               tile("MISSION COMP", r.visuals.overlay)>>

\* what the page shows of the artifacts: the grid, under 'View Results' with a result
ArtifactView ==
  IF activeMenu = "View Results" /\ result.set THEN ResultsGrid(result) ELSE << >>

\* the steps of a running runUnet after its awaits
runUnet_resume ==
  \/ runUnet_gotMask
  \/ runUnet_gotPredicted
  \/ runUnet_gotOverlay

Next ==
  \/ SelectImage
  \/ SelectMask
  \/ switchMenu
  \/ runUnet_start
  \/ runUnet_analyzed
  \/ runUnet_failed
  \/ runUnet_resume
  \/ exportReport
  \/ exportAssets
  \/ Handlers

Spec == Init /\ [][Next]_vars

\* Spec with its scheduling: the request of analyzeOilSpill is answered or
\* fails, an image that has been given its src loads or fails to load, and a
\* settled promise resumes the function awaiting it
LiveSpec ==
  /\ Spec
  /\ WF_vars(runUnet_analyzed \/ runUnet_failed)
  /\ WF_vars(Handlers)
  /\ WF_vars(runUnet_resume)

-----------------------------------------------------------------------------
(* The rasterizers called together: the functions of a revision are all    *)
(* called on one source image before any of the images has decoded, as by  *)
(* Promise.all([...]); the onload handlers then run in any order.          *)

\* the rasterization functions a revision exports
RunKinds == IF variant = "poly" THEN Kinds ELSE {"pred", "ovl"}

\* the shapes each function is given out of an analysis result
ShapesFor(k, dr) ==
  IF variant # "poly" THEN dr.coordinates
  ELSE IF k = "gt" THEN dr.groundTruthPolygons
  ELSE dr.predictedPolygons

\* the land polygons each function is given out of an analysis result
LandFor(k, dr) ==
  IF variant = "poly" /\ k = "gt" THEN OrEmpty(dr.landPolygons) ELSE Absent

\* each function runs up to `img.src = originalImage` and returns its promise
StartConcurrently ==
  /\ NoCallYet
  /\ \E img \in AppImages, dr \in AnalysisResults :
       calls' = [k \in Kinds |->
                   IF k \in RunKinds
                     THEN NewCall(img, ShapesFor(k, dr), LandFor(k, dr))
                     ELSE IdleCall]
  /\ download' = NoDownload /\ assets' = NoAssets /\ UNCHANGED <<idx, charts, variant, appVars>>

ConcurrentNext ==
  \/ StartConcurrently
  \/ Handlers

ConcurrentSpec == Init /\ [][ConcurrentNext]_vars

-----------------------------------------------------------------------------
(* Properties of the rasterizers (checked under RasterSpec)                *)

Done(k)     == calls[k].settled /\ calls[k].value.data   \* resolved to a raster
LongOnes(l) == SelectSeq(l, LAMBDA q : Len(q) >= 3)      \* the polygons that are drawn
Regular(l)  == SelectSeq(l, LAMBDA b : b.w # 0 /\ b.h # 0)
Layer(c)    == <<"paint", c>>

\* pixel (px, py) lies in some drawn polygon of the list, on an img-sized canvas
InSomePolygon(l, img, px, py) ==
  \E i \in 1 .. Len(l) :
    Len(l[i]) >= 3 /\ PathCovers(PolygonPath(l[i], img.width, img.height), px, py)

\* C1: in the ground-truth mask every pixel lying in both a drawn land polygon
\* and a drawn spill polygon has the spill colour #000000, never the land colour.
C1_SpillOverLand ==
  Done("gt") =>
    LET c == calls["gt"]
    IN  \A p \in Pixels(c.value) :
          ( /\ InSomePolygon(c.land.items, c.img, p[1], p[2])
            /\ InSomePolygon(c.shapes.items, c.img, p[1], p[2]) )
          => PixelAt(c.value, p[1], p[2]) = <<Layer("#000000")>>

C1_Witness ==
  /\ Done("gt")
  /\ LET c == calls["gt"]
     IN  \E p \in Pixels(c.value) :
           /\ InSomePolygon(c.land.items, c.img, p[1], p[2])
           /\ InSomePolygon(c.shapes.items, c.img, p[1], p[2])
           /\ PixelAt(c.value, p[1], p[2]) = <<Layer("#000000")>>
           /\ \E q \in Pixels(c.value) : PixelAt(c.value, q[1], q[2]) = <<Layer("#2ECC71")>>

\* C2 (as claimed): once the image of a rasterization call has failed to decode,
\* the promise of the call is resolved to the empty string.
C2_DecodeFailureResolvesEmpty ==
  \A k \in Kinds :
    calls[k].st = "error" => (calls[k].settled /\ calls[k].value = EmptyStr)

\* C4: a polygon of fewer than 3 points draws nothing: each polygon artifact is
\* pixel-identical to the artifact of the list without the short polygons, and
\* every pixel inside a polygon of 3 or more points is painted.
C4_ShortPolygonNoOp ==
  /\ Done("gt") =>
       LET c == calls["gt"]
       IN  SamePicture(c.value,
             generateGTReferenceMask(c.img, Arr(LongOnes(c.shapes.items)),
                                     Arr(LongOnes(c.land.items)), TRUE).value)
  /\ (variant = "poly" /\ Done("pred")) =>
       LET c == calls["pred"]
       IN  /\ SamePicture(c.value,
                generatePredictedMask(c.img, Arr(LongOnes(c.shapes.items)), TRUE).value)
           /\ \A p \in Pixels(c.value) :
                PixelAt(c.value, p[1], p[2]) =
                  IF InSomePolygon(c.shapes.items, c.img, p[1], p[2])
                    THEN <<Layer("#000000")>> ELSE <<Layer("#FFFFFF")>>
  /\ (variant = "poly" /\ Done("ovl")) =>
       LET c == calls["ovl"]
       IN  SamePicture(c.value,
             generateFinalOverlay(c.img, Arr(LongOnes(c.shapes.items)), TRUE).value)

\* a short polygon followed by a drawn one
C4_Witness ==
  /\ variant = "poly" /\ Done("pred")
  /\ calls["pred"].shapes.items = <<Short, Tri>>
  /\ PixelAt(calls["pred"].value, 0, 0) = <<Layer("#000000")>>

\* C5 (as claimed): a mask made from an empty shape list is the background fill
\* plus a centred "no detection" label.
HasCentredLabel(art) ==
  \E i \in 1 .. Len(art.ops) :
    /\ art.ops[i].op = "fillText"
    /\ art.ops[i].align = "center"
    /\ art.ops[i].x * 2 = art.width * PX
    /\ art.ops[i].y * 2 = art.height * PX

C5_EmptyListPlaceholder ==
  /\ ( /\ Done("gt")
       /\ calls["gt"].shapes.items = << >> /\ calls["gt"].land.items = << >> )
     => HasCentredLabel(calls["gt"].value)
  /\ (Done("pred") /\ calls["pred"].shapes.items = << >>)
     => HasCentredLabel(calls["pred"].value)

\* the generators of the running revision
PredictedMaskOf(v, img, coords) ==
  IF v = "box" THEN generatePredictedMask_box(img, coords, TRUE)
  ELSE generatePredictedMask_box2(img, coords, TRUE)
OverlayOf(v, img, coords) ==
  IF v = "box" THEN generateOverlay_box(img, coords, TRUE)
  ELSE generateOverlay_box2(img, coords, TRUE)

BoxVariant == variant \in {"box", "box2"}
Background  == IF variant = "box" THEN Layer("#0f172a") ELSE Layer("#050B18")
Gradients   == {"gradient(#ff0055, #00e676)", "gradient(#0055FF, #001133)"}

\* pixel (px, py) shares area with the normalized rectangle of a regular box
InSomeBox(l, img, px, py) ==
  \E i \in 1 .. Len(l) :
    /\ l[i].w # 0 /\ l[i].h # 0
    /\ Touches(px, py, Norm(l[i].x, img.width), Norm(l[i].y, img.height),
               Norm(l[i].x + l[i].w, img.width), Norm(l[i].y + l[i].h, img.height))

\* C6 (as claimed): a box of zero width or height is skipped: the artifact is the
\* picture of the list without the degenerate boxes.
C6_DegenerateBoxSkipped ==
  /\ (BoxVariant /\ Done("ovl")) =>
       LET c == calls["ovl"]
       IN  SamePicture(c.value, OverlayOf(variant, c.img, Arr(Regular(c.shapes.items))).value)
  /\ (BoxVariant /\ Done("pred") /\ Regular(calls["pred"].shapes.items) # << >>) =>
       LET c == calls["pred"]
       IN  SamePicture(c.value,
                       PredictedMaskOf(variant, c.img, Arr(Regular(c.shapes.items))).value)

\* C8: normalization is the linear scale percent / 100 * dimension, unclamped:
\* every vertex of every path and every x, y, w, h of every box rectangle on a
\* canvas is that scale of its input; inputs in [0,100] land in [0,W] x [0,H],
\* 0 on 0 and 100 on W (resp. H).
Linear(pixel, percent, dim) ==
  /\ pixel * 100 = percent * dim * PX
  /\ (percent \in 0 .. 100) => (pixel >= 0 /\ pixel <= dim * PX)
  /\ (percent = 0) => pixel = 0
  /\ (percent = 100) => pixel = dim * PX

PathOps(art) == SelectSeq(art.ops, LAMBDA o : o.op = "fillPath")
BoxFillOps(art) ==
  SelectSeq(art.ops, LAMBDA o : o.op = "fillRect" /\ o.paint \notin {"#0f172a", "#050B18"})

PathsLinear(art, l) ==
  LET paths == PathOps(art)
  IN  /\ Len(paths) = Len(l)
      /\ \A i \in 1 .. Len(l) :
           /\ Len(paths[i].pts) = Len(l[i])
           /\ \A j \in 1 .. Len(l[i]) :
                /\ Linear(paths[i].pts[j].x, l[i][j].x, art.width)
                /\ Linear(paths[i].pts[j].y, l[i][j].y, art.height)

BoxesLinear(art, l) ==
  LET fills == BoxFillOps(art)
  IN  /\ Len(fills) = Len(l)
      /\ \A i \in 1 .. Len(l) :
           /\ Linear(fills[i].x, l[i].x, art.width)
           /\ Linear(fills[i].y, l[i].y, art.height)
           /\ Linear(fills[i].w, l[i].w, art.width)
           /\ Linear(fills[i].h, l[i].h, art.height)

C8_LinearNormalization ==
  /\ Done("gt") =>
       PathsLinear(calls["gt"].value,
                   LongOnes(calls["gt"].land.items) \o LongOnes(calls["gt"].shapes.items))
  /\ \A k \in {"pred", "ovl"} :
       Done(k) =>
         IF variant = "poly"
           THEN PathsLinear(calls[k].value, LongOnes(calls[k].shapes.items))
           ELSE BoxesLinear(calls[k].value, calls[k].shapes.items)

\* a drawn vertex beyond the right edge (input 120) next to one on the edge (100)
C8_Witness ==
  /\ variant = "poly" /\ Done("pred")
  /\ calls["pred"].shapes.items = <<Tri, Wide>>
  /\ LET paths == PathOps(calls["pred"].value)
     IN  /\ paths[1].pts[2].x = calls["pred"].value.width * PX
         /\ paths[2].pts[2].x > calls["pred"].value.width * PX
         /\ paths[2].pts[1].y < 0

\* scenario A: coordinates = [{x:10,y:10,w:20,h:20}] on a 200x200 image
ScenarioA(k) ==
  /\ BoxVariant /\ Done(k)
  /\ calls[k].img = ScenarioImage /\ calls[k].shapes = Arr(<<BoxA>>)
InRegionA(p) == p[1] \in 20 .. 59 /\ p[2] \in 20 .. 59

\* C9 (as claimed): in scenario A every pixel of [20,20]-[60,60] is not
\* background-coloured and every other pixel is background-coloured.
C9_OnlyRegionColoured ==
  ScenarioA("pred") =>
       \A p \in Pixels(calls["pred"].value) :
         IF InRegionA(p)
           THEN PixelAt(calls["pred"].value, p[1], p[2]) # <<Background>>
           ELSE PixelAt(calls["pred"].value, p[1], p[2]) = <<Background>>

\* C9 (amended): in scenario A every pixel of [20,20]-[60,60] is not
\* background-coloured, and outside it a pixel carries, over the background,
\* nothing but the border strokes and the glow of the box; in general the
\* gradient fill of a box colours only pixels of its normalized rectangle.
HasGradient(stack) == \E i \in 1 .. Len(stack) : stack[i][2] \in Gradients
StrokeOrGlow(layer) ==
  \/ layer[1] = "glow"
  \/ layer[2] \in {"#ffffff", "#FFFFFF", "#0055FF"}

C9_FillStaysInRegion ==
  /\ ScenarioA("pred") =>
       \A p \in Pixels(calls["pred"].value) :
         LET stack == PixelAt(calls["pred"].value, p[1], p[2])
         IN  IF InRegionA(p)
               THEN stack # <<Background>>
               ELSE \A i \in 1 .. Len(stack) :
                      stack[i] = Background \/ StrokeOrGlow(stack[i])
  /\ (BoxVariant /\ Done("pred")) =>
       LET c == calls["pred"]
       IN  \A p \in Pixels(c.value) :
             HasGradient(PixelAt(c.value, p[1], p[2]))
             => InSomeBox(c.shapes.items, c.img, p[1], p[2])

\* scenario A rendered: a gradient pixel inside, a stroked or glowing pixel just
\* outside the region, a background pixel far from it
C9_Witness ==
  /\ ScenarioA("pred")
  /\ HasGradient(PixelAt(calls["pred"].value, 30, 30))
  /\ PixelAt(calls["pred"].value, 19, 30) # <<Background>>
  /\ PixelAt(calls["pred"].value, 150, 150) = <<Background>>

\* C10 (as claimed): every overlay is image, then a uniform translucent tint,
\* then the shapes in a translucent highlight: a pixel outside all shapes carries
\* image + tint, a pixel inside a drawn shape image + tint + highlight.
ImageLayer == <<"image", "source">>
IsTint(layer) == layer[1] = "paint" /\ layer[2] \in Translucent
InSomeShape(c, px, py) ==
  IF variant = "poly" THEN InSomePolygon(c.shapes.items, c.img, px, py)
  ELSE InSomeBox(c.shapes.items, c.img, px, py)

-----------------------------------------------------------------------------
(* Properties of runUnet (checked under Spec)                              *)

\* C3 (as claimed): a decode failure of one artifact does not abort the run:
\* a run waiting for an artifact whose image failed to decode can go on to the
\* next artifact (and in the end set result, with "" for the failed one).
C3_DecodeFailureDoesNotAbort ==
  \A k \in Kinds :
    (analyzing /\ pc = k /\ calls[k].st = "error") => ENABLED runUnet_resume

\* C7 (as claimed): with groundTruthPolygons absent from the analysis result,
\* the ground-truth mask call still settles once its image has loaded, and
\* runUnet goes on to the predicted mask.
C7_MissingGroundTruthTolerated ==
  ( /\ variant = "poly" /\ pc = "gt"
    /\ ~res.groundTruthPolygons.defined
    /\ calls["gt"].st = "loaded" )
  => (calls["gt"].settled /\ ENABLED runUnet_gotMask)

-----------------------------------------------------------------------------
(* Properties of the chart functions (checked under ChartSpec)             *)

Drawn(slot)    == charts.set /\ charts.out[slot].kind = "svg"
Rendered(slot) == charts.set /\ charts.out[slot].kind = "widget"
SvgOf(slot)    == charts.out[slot].svg
WidgetOf(slot) == charts.out[slot].widget
Elements(q)    == {q[i] : i \in DOMAIN q}

\* C11: generateRadarSvg lays vertex i of N metrics on the ray of angle
\* i*2*pi/N at distance radius*(value/fullMark) from the centre, and draws five
\* grid rings at 0.2, 0.4, 0.6, 0.8 and 1.0 of the radius with their vertices
\* on the same rays; so a metric at its full mark lies on vertex i of the outer
\* ring and a metric at half its full mark at half that distance.
C11_RadarLayout ==
  Drawn("generateRadarSvg") =>
    LET svg     == SvgOf("generateRadarSvg")
        metrics == charts.dr.radarMetrics
        n       == Len(metrics)
        radius  == IF charts.rev = "mc" THEN Num(160) ELSE Num(140)
        outer   == svg.rings[5]
    IN  /\ Len(svg.poly.pts) = n
        /\ Len(svg.rings) = 5
        /\ \A k \in 1..5 :
             /\ svg.rings[k].rel = Q(k, 5)
             /\ Len(svg.rings[k].pts) = n + 1
             /\ \A j \in 0..n :
                  /\ svg.rings[k].pts[j + 1].dist = QMul(radius, Q(k, 5))
                  /\ n > 0 => svg.rings[k].pts[j + 1].turn = Q(j % n, n)
        /\ \A i \in 1..n :
             LET m == metrics[i]
                 v == svg.poly.pts[i]
             IN  (QLt(Num(0), m.fullMark) /\ QLe(Num(0), m.value)) =>
                   /\ v.dist = QMul(radius, QDiv(m.value, m.fullMark))
                   /\ m.value.n # 0 => v.turn = Q(i - 1, n)
                   /\ m.value = m.fullMark => v = outer.pts[i]
                   /\ QMul(Num(2), m.value) = m.fullMark =>
                        /\ QMul(Num(2), v.dist) = outer.pts[i].dist
                        /\ v.turn = outer.pts[i].turn

\* scenario C has been drawn: B on the outer ring, A at half its radius
C11_Witness ==
  /\ Drawn("generateRadarSvg")
  /\ charts.dr.radarMetrics = ScenarioC
  /\ SvgOf("generateRadarSvg").poly.pts[2] = SvgOf("generateRadarSvg").rings[5].pts[2]
  /\ SvgOf("generateRadarSvg").poly.pts[2].turn = Q(1, 2)
  /\ QMul(Num(2), SvgOf("generateRadarSvg").poly.pts[1].dist)
       = SvgOf("generateRadarSvg").rings[5].pts[1].dist

\* C12 (as claimed): for one data series the widget and the static generator
\* of a chart plot the same set of series over the same y-domain, with the
\* metrics in the same order and on the same scale.
C12_BackEndsAgree ==
  /\ (Rendered("PerformanceChart") /\ Drawn("generatePerformanceSvg")) =>
       /\ Elements(WidgetOf("PerformanceChart").series)
            = Elements(SvgOf("generatePerformanceSvg").series)
       /\ WidgetOf("PerformanceChart").domain = SvgOf("generatePerformanceSvg").domain
  /\ (Rendered("MetricsBarChart") /\ Drawn("generateMetricsBarSvg")) =>
       /\ Len(WidgetOf("MetricsBarChart").rows) = Len(SvgOf("generateMetricsBarSvg").rows)
       /\ \A i \in DOMAIN WidgetOf("MetricsBarChart").rows :
            QMul(WidgetOf("MetricsBarChart").rows[i].value,
                 Num(SvgOf("generateMetricsBarSvg").rows[i].track.width))
              = SvgOf("generateMetricsBarSvg").rows[i].bar.width
  /\ (Rendered("RadarChart") /\ Drawn("generateRadarSvg")) =>
       /\ Len(WidgetOf("RadarChart").data) = Len(SvgOf("generateRadarSvg").poly.pts)
       /\ \A i \in DOMAIN WidgetOf("RadarChart").data :
            WidgetOf("RadarChart").data[i].subject
              = SvgOf("generateRadarSvg").labels[i].text

\* C13: for a history of n >= 2 points generatePerformanceSvg places point i at
\* x = padding + i/(n-1)*chartWidth (40 for the first point, 760 for the last,
\* strictly increasing) and y = height - padding - (val/maxVal)*chartHeight,
\* maxVal being 1 for valIoU and the mission line and 100 for valAccuracy; a
\* value within [0, maxVal] lies inside the plot rectangle.
C13_PerformanceLayout ==
  (Drawn("generatePerformanceSvg") /\ Len(charts.history) >= 2) =>
    LET svg    == SvgOf("generatePerformanceSvg")
        h      == charts.history
        n      == Len(h)
        series == svg.series[1]
        maxVal == IF series = "valAccuracy" THEN Num(100) ELSE Num(1)
        pt(i)  == svg.area.pts[i + 1]
        InPlot(p) == /\ QLe(Num(40), p.x) /\ QLe(p.x, Num(760))
                     /\ QLe(Num(40), p.y) /\ QLe(p.y, Num(260))
    IN  /\ Len(svg.series) = 1
        /\ series = (IF charts.rev = "mc" THEN "valAccuracy" ELSE "valIoU")
        /\ svg.domain = [lo |-> Num(0), hi |-> maxVal]
        /\ Len(svg.area.pts) = n + 2
        /\ pt(1).x = Num(40) /\ pt(n).x = Num(760)
        /\ svg.area.pts[1] = Pt(Num(40), Num(260))
        /\ svg.area.pts[n + 2] = Pt(Num(760), Num(260))
        /\ \A i \in 1..n :
             /\ pt(i).x = Q(40 * (n - 1) + (i - 1) * 720, n - 1)
             /\ pt(i).y = QSub(Num(260), QMul(QDiv(h[i][series], maxVal), Num(220)))
             /\ i < n => QLt(pt(i).x, pt(i + 1).x)
             /\ (QLe(Num(0), h[i][series]) /\ QLe(h[i][series], maxVal)) => InPlot(pt(i))
        /\ svg.mission.set =>
             /\ series = "valIoU"
             /\ svg.mission.x1 = Num(40) /\ svg.mission.x2 = Num(760)
             /\ svg.mission.y = QSub(Num(260), QMul(charts.dr.iou, Num(220)))
             /\ (QLe(Num(0), charts.dr.iou) /\ QLe(charts.dr.iou, Num(1))) =>
                  (QLe(Num(40), svg.mission.y) /\ QLe(svg.mission.y, Num(260)))
        /\ Len(svg.line.pts) > 0 =>
             \A i \in 1..n : svg.line.pts[i + 1] = pt(i)

\* three points of the training history and the mission line were drawn
C13_Witness ==
  /\ Drawn("generatePerformanceSvg")
  /\ Len(charts.history) = 3
  /\ charts.history = SubSeq(MOCK_TRAINING_HISTORY, 1, Len(charts.history))
  /\ SvgOf("generatePerformanceSvg").mission.set
  /\ SvgOf("generatePerformanceSvg").area.pts[3].x = Q(40 * 2 + 720, 2)
  /\ SvgOf("generatePerformanceSvg").area.pts[4].x = Num(760)

\* C14: generateMetricsBarSvg draws one bar per named metric in the order
\* Confidence, IoU, Segmentation fidelity, row i at y = i*60 + 40, the bar as
\* long as trackWidth * value with trackWidth = 800 - 2*40 - 150; a value in
\* [0, 1] gives a length in [0, trackWidth], within the background track.
C14_BarLayout ==
  Drawn("generateMetricsBarSvg") =>
    LET svg  == SvgOf("generateMetricsBarSvg")
        vals == <<charts.dr.confidence, charts.dr.iou,
                  charts.dr.technicalDetails.segmentationFidelity>>
    IN  /\ Len(svg.rows) = 3
        /\ [i \in 1..3 |-> svg.rows[i].label]
             = <<"Confidence", "IoU Fidelity", "Segmentation">>
        /\ \A i \in 1..3 :
             LET row == svg.rows[i]
             IN  /\ row.y = (i - 1) * 60 + 40
                 /\ row.bar.y = row.y /\ row.track.y = row.y
                 /\ row.bar.x = row.track.x
                 /\ row.track.width = 570
                 /\ row.bar.width = QMul(Num(570), vals[i])
                 /\ (QLe(Num(0), vals[i]) /\ QLe(vals[i], Num(1))) =>
                      /\ QLe(Num(0), row.bar.width)
                      /\ QLe(row.bar.width, Num(row.track.width))

\* the bars of a result with metrics strictly inside (0, 1) were drawn
C14_Witness ==
  /\ Drawn("generateMetricsBarSvg")
  /\ charts.dr.confidence = Q(95, 100)
  /\ SvgOf("generateMetricsBarSvg").rows[1].bar.width = Q(1083, 2)
  /\ SvgOf("generateMetricsBarSvg").rows[3].y = 160

-----------------------------------------------------------------------------
(* Properties of the exported report (checked under Spec)                  *)

\* the document of the file exportReport has just handed to the browser
Doc == download.content

\* the values behind the <img> tags of a document, in order
ImageValues(doc) == [i \in DOMAIN doc.images |-> doc.images[i].src.value]

\* the four raster artifacts of the stored result, in the order input,
\* ground-truth mask, predicted mask, overlay
FourArtifacts ==
  IF variant = "poly"
    THEN <<result.visuals.input, result.visuals.mask,
           result.visuals.predicted, result.visuals.overlay>>
    ELSE <<result.visuals.input, result.visuals.gtMask,
           result.visuals.predictedMask, result.visuals.overlay>>

\* a result that found no spill and carries no shape
CleanResult(dr) ==
  /\ ~dr.spillFound
  /\ IF variant = "poly"
       THEN /\ OrEmpty(dr.groundTruthPolygons).items = << >>
            /\ OrEmpty(dr.predictedPolygons).items = << >>
            /\ OrEmpty(dr.landPolygons).items = << >>
       ELSE OrEmpty(dr.coordinates).items = << >>

\* C15: whenever exportReport hands a report to the browser, the report holds
\* the metrics summary (confidence, IoU, area estimate) and the briefing of the
\* stored result, the four raster artifacts (input, ground-truth mask,
\* predicted mask, overlay) and the three static charts (performance, metrics
\* bar, radar).
C15_ReportComplete ==
  download.set =>
    /\ {"confidence", "iou", "areaEstimate"} \subseteq DOMAIN Doc.metrics
    /\ Doc.metrics.areaEstimate = result.res.areaEstimate
    /\ Doc.description = result.res.description
    /\ ImageValues(Doc) = FourArtifacts
    /\ Len(Doc.charts) = 3
    /\ \A i \in DOMAIN Doc.charts : Doc.charts[i].kind = "svg"
    /\ [i \in DOMAIN Doc.charts |-> Doc.charts[i].svg.chart]
         = <<"performance", "bars", "radar">>

\* C16: whenever exportReport hands a report to the browser, the source of
\* every <img> of the report is a data URI and is a raster artifact of the
\* stored result: never the text "undefined" or "null", never the empty string.
C16_ImagesInline ==
  download.set =>
    \A i \in DOMAIN Doc.images :
      /\ Doc.images[i].src.text = "data:"
      /\ \E slot \in DOMAIN result.visuals : Doc.images[i].src.value = result.visuals[slot]

\* C17: the report exported for a result that found no spill and carries no
\* shape either has no environmental-impact block or shows it without the red
\* of the severe level.
C17_CleanReportNotSevere ==
  (download.set /\ CleanResult(result.res)) =>
    (Doc.impact.shown => Doc.impact.color # "#ff0000")

-----------------------------------------------------------------------------
(* The mission log: status ticker, run start, addLog callers *)

\* number of SYNC_COMPLETE lines the log may hold when the cache is synchronized
MaxSyncs == 1

ANALYSIS_MESSAGES ==
  <<"CONNECTING TO ORBITAL NODE...",
    "EXTRACTING SAR BACKSCATTER...",
    "DENOISING NEURAL LAYERS...",
    "SEGMENTING OIL ANOMALIES...",
    "CALIBRATING IOU SCORES...",
    "MAPPING SPECTRAL SIGNATURE...",
    "FINALIZING MARITIME DATA...">>

\* the effect on [analyzing], run by React after the render that committed a
\* change of analyzing: the cleanup of the previous run of the effect clears
\* the interval; the effect sets one, with its own idx = 0, if analyzing
TickerEffect ==
  /\ \/ analyzing /\ idx = NoInterval /\ idx' = 0
     \/ ~analyzing /\ idx # NoInterval /\ idx' = NoInterval
  /\ download' = NoDownload /\ assets' = NoAssets
  /\ UNCHANGED <<charts, variant, selectedImage, maskImage, analyzing, result, logs,
                 activeMenu, pc, closure, res, calls>>

\* the interval callback of the status ticker, while the interval is set
\* (idx is 0-based; sequences here are 1-based)
Tick ==
  /\ idx # NoInterval
  /\ idx' = (idx + 1) % Len(ANALYSIS_MESSAGES)
  /\ logs' = addLog(logs, ANALYSIS_MESSAGES[idx' + 1])
  /\ download' = NoDownload /\ assets' = NoAssets
  /\ UNCHANGED <<charts, variant, selectedImage, maskImage, analyzing, result, activeMenu,
                 pc, closure, res, calls>>

\* RELOAD_STORAGE on 'Report & Summary' (src/App.tsx): performTransition shows
\* the overlay, waits, then calls addLog("SYNC_COMPLETE")
syncCache ==
  /\ variant \in {"box", "box2"}
  /\ activeMenu = "Report & Summary"
  /\ Cardinality({i \in DOMAIN logs : logs[i] = "SYNC_COMPLETE"}) < MaxSyncs
  /\ logs' = addLog(logs, "SYNC_COMPLETE")
  /\ download' = NoDownload /\ assets' = NoAssets
  /\ UNCHANGED <<idx, charts, variant, selectedImage, maskImage, analyzing, result,
                 activeMenu, pc, closure, res, calls>>

LogNext ==
  \/ SelectImage
  \/ switchMenu
  \/ runUnet_start
  \/ runUnet_analyzed
  \/ runUnet_failed
  \/ TickerEffect
  \/ Tick
  \/ syncCache

LogSpec == Init /\ [][LogNext]_vars

-----------------------------------------------------------------------------
(* Properties of the rasterization calls across runs (checked under Spec)  *)
(* and across concurrent calls (checked under ConcurrentSpec)              *)

\* the artifact of the stored result that function k produced
ArtifactOf(k) ==
  IF variant = "poly"
    THEN (IF k = "gt" THEN result.visuals.mask
          ELSE IF k = "pred" THEN result.visuals.predicted
          ELSE result.visuals.overlay)
    ELSE (IF k = "pred" THEN result.visuals.predictedMask ELSE result.visuals.overlay)

\* two artifacts of calls that both got a 2D context, or both got none, are equal
SameOutcome(a, b) == (a.data = b.data) => a = b

\* the run in progress (or the last one) works on the image of the stored result
SameSource ==
  result.set /\ res.set /\ closure.selectedImage = result.visuals.input

\* C18: in a run on the image of the stored result, the predicted mask and the
\* overlay equal the stored ones whenever the predicted shapes are the same,
\* whatever the ground-truth and land polygons are; the ground-truth mask
\* equals the stored one whenever the ground-truth and land polygons are the
\* same, whatever the predicted polygons are.
C18_PipelinesIndependent ==
  SameSource =>
    /\ \A k \in {"pred", "ovl"} :
         (calls[k].settled /\ ShapesFor(k, res) = ShapesFor(k, result.res))
           => SameOutcome(calls[k].value, ArtifactOf(k))
    /\ (/\ variant = "poly" /\ calls["gt"].settled
        /\ res.groundTruthPolygons = result.res.groundTruthPolygons
        /\ OrEmpty(res.landPolygons) = OrEmpty(result.res.landPolygons))
         => SameOutcome(calls["gt"].value, ArtifactOf("gt"))

\* a second run drew the stored predicted mask again from the same predicted
\* polygons, with other ground-truth and land polygons
C18_Witness ==
  /\ variant = "poly" /\ analyzing /\ SameSource
  /\ calls["pred"].settled /\ calls["pred"].value.data
  /\ res.predictedPolygons = result.res.predictedPolygons
  /\ res.predictedPolygons.items # << >>
  /\ res.groundTruthPolygons # result.res.groundTruthPolygons
  /\ OrEmpty(res.landPolygons) # OrEmpty(result.res.landPolygons)
  /\ calls["pred"].value = result.visuals.predicted
  /\ calls["gt"].value # result.visuals.mask

Rasterize(k, call, ctxOk) ==
  CASE variant = "poly" /\ k = "gt"   ->
         generateGTReferenceMask(call.img, call.shapes, call.land, ctxOk)
    [] variant = "poly" /\ k = "pred" -> generatePredictedMask(call.img, call.shapes, ctxOk)
    [] variant = "poly" /\ k = "ovl"  -> generateFinalOverlay(call.img, call.shapes, ctxOk)
    [] variant = "box"  /\ k = "pred" -> generatePredictedMask_box(call.img, call.shapes, ctxOk)
    [] variant = "box"  /\ k = "ovl"  -> generateOverlay_box(call.img, call.shapes, ctxOk)
    [] variant = "box2" /\ k = "pred" -> generatePredictedMask_box2(call.img, call.shapes, ctxOk)
    [] variant = "box2" /\ k = "ovl"  -> generateOverlay_box2(call.img, call.shapes, ctxOk)

\* the artifacts a call settles to when it is the only call
Alone(k, call) ==
  {Rasterize(k, call, ctxOk).value :
     ctxOk \in {b \in BOOLEAN : Rasterize(k, call, b).kind # "throw"}}

-----------------------------------------------------------------------------
(* Properties of the failure paths of the rasterizers (RasterSpec)         *)

\* C21: for every call in flight or finished, the function applied to the
\* arguments of the call with getContext('2d') returning null resolves the
\* empty string (nothing drawn, nothing thrown); and a call that settled
\* without a raster holds exactly the empty string and has not thrown.
C21_NoContextResolvesEmpty ==
  \A k \in Kinds :
    /\ calls[k].st # "idle" => Rasterize(k, calls[k], FALSE) = Resolve(EmptyStr)
    /\ (calls[k].settled /\ ~calls[k].value.data)
         => (calls[k].value = EmptyStr /\ calls[k].value.ops = << >> /\ ~calls[k].threw)
    /\ (calls[k].st = "loaded" /\ calls[k].threw)
         => Rasterize(k, calls[k], TRUE).kind = "throw"

\* a call with shapes to draw has settled to the empty string
C21_Witness ==
  \E k \in Kinds :
    /\ calls[k].settled /\ calls[k].st = "loaded" /\ ~calls[k].threw
    /\ calls[k].shapes.items # << >>
    /\ calls[k].value = EmptyStr
    /\ Rasterize(k, calls[k], TRUE).kind = "resolve"
    /\ Rasterize(k, calls[k], TRUE).value.ops # << >>

-----------------------------------------------------------------------------
(* Properties of the callers of the rasterizers (Spec)                     *)

\* C22: every artifact slot of the stored result that is empty or null is
\* shown as a placeholder by the artifact grid, and no download exportAssets
\* starts has an empty or null address.
C22_EmptyArtifactUnavailable ==
  /\ \A i \in DOMAIN ArtifactView :
       ~Truthy(ArtifactView[i].src) => ArtifactView[i].kind = "placeholder"
  /\ \A i \in DOMAIN assets : Truthy(assets[i].href)

-----------------------------------------------------------------------------
(* Properties of the density chart (DensitySpec)                           *)

\* C23: for every areaEstimate text the density chart is rendered with a
\* magnitude that is a finite positive number: the number the text writes, or
\* 50 when the text has no digit.
C23_MagnitudeFinitePositive ==
  (charts.set /\ charts.out # NoOutput) =>
    /\ charts.out.kind = "widget"
    /\ IsFinite(charts.out.widget.areaValue)
    /\ QLt(Num(0), charts.out.widget.areaValue)
    /\ (\A i \in DOMAIN charts.areaEstimate : ~IsDigit(charts.areaEstimate[i]))
         => charts.out.widget.areaValue = Num(50)

-----------------------------------------------------------------------------
(* Properties of the static generators on degenerate input (ChartSpec)     *)

\* every coordinate of a list of points is a finite number
FinitePoints(pts) ==
  \A i \in DOMAIN pts :
    IF "dist" \in DOMAIN pts[i]
      THEN IsFinite(pts[i].dist) /\ IsFinite(pts[i].turn)
      ELSE IsFinite(pts[i].x) /\ IsFinite(pts[i].y)

\* C24: generatePerformanceSvg called with a history of zero or one point,
\* and generateRadarSvg called with no metric or with a metric whose full
\* mark is 0, return markup (they do not throw) whose coordinates are all
\* finite numbers.
C24_DegenerateInputDrawn ==
  /\ (/\ charts.set /\ "history" \in DOMAIN charts
      /\ charts.out["generatePerformanceSvg"] # NoOutput
      /\ Len(charts.history) <= 1)
       => /\ Drawn("generatePerformanceSvg")
          /\ FinitePoints(SvgOf("generatePerformanceSvg").area.pts)
  /\ (/\ charts.set /\ "history" \in DOMAIN charts
      /\ charts.out["generateRadarSvg"] # NoOutput
      /\ \/ charts.dr.radarMetrics = << >>
         \/ \E j \in DOMAIN charts.dr.radarMetrics :
              charts.dr.radarMetrics[j].fullMark = Num(0))
       => /\ Drawn("generateRadarSvg")
          /\ FinitePoints(SvgOf("generateRadarSvg").poly.pts)
          /\ \A k \in DOMAIN SvgOf("generateRadarSvg").rings :
               FinitePoints(SvgOf("generateRadarSvg").rings[k].pts)

-----------------------------------------------------------------------------
(* Properties of the palette (ChartSpec)                                   *)

\* the colours of the palette
PaletteColours == {Palette[key] : key \in DOMAIN Palette}

\* C25: every bar of the metrics bar chart, in the static markup and in the
\* widget, is filled with a colour of the COLORS palette.
C25_PaletteColoursDefined ==
  /\ Drawn("generateMetricsBarSvg") =>
       \A i \in DOMAIN SvgOf("generateMetricsBarSvg").rows :
         SvgOf("generateMetricsBarSvg").rows[i].bar.fill \in PaletteColours
  /\ Rendered("MetricsBarChart") =>
       \A i \in DOMAIN WidgetOf("MetricsBarChart").rows :
         WidgetOf("MetricsBarChart").rows[i].color \in PaletteColours

-----------------------------------------------------------------------------
(* Properties of a run of runUnet (Spec, LiveSpec)                         *)

\* C26: whenever analyzing is true it is false again later: every started
\* runUnet reaches its finally block.
C26_RunEnds == analyzing ~> ~analyzing

\* the positions a run at position p may be at after one step
PositionsAfter(p) ==
  CASE p = "analyze" -> {"analyze", "idle", IF variant = "poly" THEN "gt" ELSE "pred"}
    [] p = "gt"      -> {"gt", "pred"}
    [] p = "pred"    -> {"pred", "ovl"}
    [] p = "ovl"     -> {"ovl", "idle"}
    [] OTHER         -> {"idle", "analyze"}

\* C27: analyzing is true exactly while a run is in flight; a run starts only
\* with an image selected and analyzing false; while a run is in flight no
\* other run starts (the captured image stays and the position only moves
\* forward); and result is written only by the run in flight, at its end,
\* from the answer and the image of that run.
C27_OneRunInFlight ==
  [][ /\ analyzing <=> pc # "idle"
      /\ analyzing' <=> pc' # "idle"
      /\ pc' \in PositionsAfter(pc)
      /\ (pc = "idle" /\ pc' # "idle") => (selectedImage # NoImage /\ ~analyzing)
      /\ pc # "idle" => closure' = closure
      /\ result' # result =>
           /\ pc = "ovl" /\ pc' = "idle"
           /\ result'.res = res
           /\ result'.visuals.input = closure.selectedImage ]_vars

\* a run is in flight over a stored result, an image other than the one of the
\* run is selected on the upload page, and the run cannot be started
C27_Witness ==
  /\ analyzing /\ pc \in {"gt", "pred", "ovl"} /\ result.set
  /\ activeMenu = "Upload Images"
  /\ selectedImage # NoImage /\ selectedImage # closure.selectedImage
  /\ ~ENABLED runUnet_start

\* C28: the step of runUnet taken when analyzeOilSpill rejects leaves result
\* (with its visuals) and activeMenu unchanged, adds exactly one line, the
\* error line, to the log, starts no rasterization call, and ends the run with
\* analyzing false.
C28_AnalysisFailureCaught ==
  [][ (pc = "analyze" /\ pc' = "idle") =>
        /\ result' = result
        /\ activeMenu' = activeMenu
        /\ logs' = SubSeq(<<IF variant = "poly" THEN "CRITICAL ERROR" ELSE "FATAL ERROR">>
                            \o logs, 1, Min(15, Len(logs) + 1))
        /\ calls' = calls
        /\ \A k \in Kinds : calls'[k].st = "idle"
        /\ ~analyzing' ]_vars

\* a run over a stored result has failed at the analysis: the result is still
\* there, the error line is the newest of the log, no call was made
C28_Witness ==
  /\ pc = "idle" /\ ~analyzing /\ result.set
  /\ Len(logs) = 2
  /\ logs[1] = (IF variant = "poly" THEN "CRITICAL ERROR" ELSE "FATAL ERROR")
  /\ \A k \in Kinds : calls[k].st = "idle"
  /\ activeMenu = "Upload Images"

\* the artifacts of the stored result other than the input image
DerivedArtifacts ==
  IF variant = "poly"
    THEN {result.visuals.mask, result.visuals.predicted, result.visuals.overlay}
    ELSE {result.visuals.gtMask, result.visuals.predictedMask, result.visuals.overlay}

\* v is a raster drawn on a canvas of the size of image img
DrawnFrom(v, img) ==
  /\ "data" \in DOMAIN v /\ v.data
  /\ v.width = img.width /\ v.height = img.height

\* C29: whenever result is set, its visuals hold the input image and three
\* artifacts, each of them a raster drawn from that input image.
C29_ArtifactsOfOneSource ==
  result.set =>
    /\ result.visuals.input # NoImage
    /\ \A v \in DerivedArtifacts : DrawnFrom(v, result.visuals.input)

-----------------------------------------------------------------------------
(* Properties of the mission log (LogSpec) *)

\* the step starts a run
RunStarts == pc = "idle" /\ pc' = "analyze"

\* the step puts one line in front of the log and drops what lies beyond 15
Prepends ==
  /\ Len(logs') = Min(15, Len(logs) + 1)
  /\ \A i \in 2..Len(logs') : logs'[i] = logs[i - 1]

\* the step is a tick of the status ticker
Ticks == idx # NoInterval /\ idx' # NoInterval /\ idx' # idx

\* C30: the log never holds more than 15 entries; a step that changes it
\* either starts a run and leaves a single entry, or puts one line in front
\* and drops the oldest beyond 15; the status ticker adds a line only while
\* analyzing is true, and it is the line after the previous one of the run in
\* the order of ANALYSIS_MESSAGES, the first following the last.
C30_LogBoundedNewestFirst ==
  [][ /\ Len(logs) <= 15 /\ Len(logs') <= 15
      /\ logs' # logs => IF RunStarts THEN Len(logs') = 1 ELSE Prepends
      /\ Ticks =>
           /\ analyzing
           /\ idx' = (IF idx = 6 THEN 0 ELSE idx + 1)
           /\ logs' # logs /\ logs'[1] = ANALYSIS_MESSAGES[idx' + 1] ]_vars

====
